---- MODULE Spec2Model ----
(***************************************************************************)
(* Model of the username-check server (server/routes.ts, server/storage.ts *)
(* and the shared zod schema): rate limiter, syntax validation, the        *)
(* two-tier availability resolver and the bulk / file orchestration loops. *)
(* One action per stretch of handler code between two awaits.              *)
(***************************************************************************)
EXTENDS Integers, Sequences, FiniteSets, TLC

(***************************************************************************)
(* Bounds of the model.                                                    *)
(***************************************************************************)
MaxBatch == 3
MaxFileLines == 2
MaxStalls == 1
MaxCalls == 12
MaxTicks == 2
MaxStrLen == 4
MaxHistory == 11
MaxStoreOps == 5

(***************************************************************************)
(* Program constants.                                                      *)
(***************************************************************************)
RATE_LIMIT_WINDOW == 60000
RATE_LIMIT_MAX == 10
FETCH_TIMEOUT == 10000
LOOP_DELAY == 200
FILE_LINE_CAP == 10000
MIN_LEN == 3
MAX_LEN == 20
DEFAULT_LIMIT == 10

(***************************************************************************)
(* JavaScript values that cross the JSON boundary.                         *)
(***************************************************************************)
JsUndefined == [type |-> "undefined"]
JsNull == [type |-> "null"]
JsStr(s) == [type |-> "string", val |-> s]
JsNum(n) == [type |-> "number", num |-> n]
JsBool(b) == [type |-> "boolean", bool |-> b]
JsArr(n) == [type |-> "array", len |-> n]

\* ToBoolean: what `x || y` and `!x` test
Truthy(v) ==
  CASE v.type = "undefined" -> FALSE
    [] v.type = "null" -> FALSE
    [] v.type = "string" -> v.val # ""
    [] v.type = "number" -> v.num # 0
    [] v.type = "boolean" -> v.bool
    [] OTHER -> TRUE

\* mutant: the default text is used whatever the left operand is
JsOrRightOnly(a, b) == b

\* a || b
JsOr(a, b) == IF Truthy(a) THEN a ELSE b

\* mutant: loose equality, "0" == 0
IsNumLoose(v, n) ==
  \/ (v.type = "number" /\ v.num = n)
  \/ (v.type = "string" /\ v.val = "0" /\ n = 0)

\* x === n for a number literal n
IsNum(v, n) == v.type = "number" /\ v.num = n

\* x === b for a boolean literal b
IsBool(v, b) == v.type = "boolean" /\ v.bool = b

(***************************************************************************)
(* Strings are sequences of one-character strings.                         *)
(***************************************************************************)
\* the class [a-zA-Z0-9_]
WordChar ==
  {"a", "b", "c", "d", "e", "f", "g", "h", "i", "j", "k", "l", "m",
   "n", "o", "p", "q", "r", "s", "t", "u", "v", "w", "x", "y", "z",
   "A", "B", "C", "D", "E", "F", "G", "H", "I", "J", "K", "L", "M",
   "N", "O", "P", "Q", "R", "S", "T", "U", "V", "W", "X", "Y", "Z",
   "0", "1", "2", "3", "4", "5", "6", "7", "8", "9", "_"}
WhiteSpace == {" ", "\t", "\r", "\n"}

RECURSIVE TrimStart(_)
TrimStart(s) ==
  IF s # << >> /\ Head(s) \in WhiteSpace THEN TrimStart(Tail(s)) ELSE s

RECURSIVE TrimEnd(_)
TrimEnd(s) ==
  IF s # << >> /\ s[Len(s)] \in WhiteSpace
    THEN TrimEnd(SubSeq(s, 1, Len(s) - 1))
    ELSE s

\* String.prototype.trim
Trim(s) == TrimEnd(TrimStart(s))

\* String.prototype.split('\n'): the lines of cur \o s. The string is split
\* in halves, and the last line of the first half is continued by the
\* second half.
RECURSIVE SplitLines(_, _)
SplitLines(s, cur) ==
  IF s = << >> THEN << cur >>
  ELSE IF Len(s) = 1
    THEN (IF s[1] = "\n" THEN << cur, << >> >> ELSE << Append(cur, s[1]) >>)
  ELSE LET h == Len(s) \div 2
           first == SplitLines(SubSeq(s, 1, h), cur)
       IN  SubSeq(first, 1, Len(first) - 1)
             \o SplitLines(SubSeq(s, h + 1, Len(s)), first[Len(first)])

\* .map(line => line.trim())
MapTrim(ls) == [i \in 1..Len(ls) |-> Trim(ls[i])]

\* .filter(line => line.length > 0)
FilterNonEmpty(ls) == SelectSeq(ls, LAMBDA l : Len(l) > 0)

\* mutant: the list is not cut (no .slice(0, n))
SliceToUncut(ls, n) == ls

\* Array.prototype.slice(0, n)
SliceTo(ls, n) == SubSeq(ls, 1, IF Len(ls) < n THEN Len(ls) ELSE n)

\* fileContent.split('\n').map(trim).filter(nonempty).slice(0, 10000)
ParseFile(content) ==
  SliceTo(FilterNonEmpty(MapTrim(SplitLines(content, << >>))), FILE_LINE_CAP)

(***************************************************************************)
(* usernameValidationSchema (shared/schema.ts).                            *)
(***************************************************************************)
\* mutant: the second refinement tests /^_/ only
StartsWithUnderscore(s) == Len(s) >= 1 /\ s[1] = "_"

\* mutant: the schema trims before it applies its rules (z.string().trim())
SchemaTrimsFirst(s) ==
  LET t == Trim(s) IN
  /\ Len(t) >= MIN_LEN
  /\ Len(t) <= MAX_LEN
  /\ Len(t) >= 1 /\ \A i \in 1..Len(t) : t[i] \in WordChar
  /\ ~(t[1] = "_" \/ t[Len(t)] = "_")
  /\ ~\E i \in 1..(Len(t) - 1) : t[i] = "_" /\ t[i + 1] = "_"

\* .regex(/^[a-zA-Z0-9_]+$/)
MatchesPattern(s) == Len(s) >= 1 /\ \A i \in 1..Len(s) : s[i] \in WordChar

\* .refine(val => !/^_|_$/.test(val))
StartsOrEndsWithUnderscore(s) ==
  Len(s) >= 1 /\ (s[1] = "_" \/ s[Len(s)] = "_")

\* .refine(val => !/__/.test(val))
HasDoubleUnderscore(s) ==
  \E i \in 1..(Len(s) - 1) : s[i] = "_" /\ s[i + 1] = "_"

\* usernameValidationSchema.parse({username}) does not throw
SchemaAccepts(s) ==
  /\ Len(s) >= MIN_LEN
  /\ Len(s) <= MAX_LEN
  /\ MatchesPattern(s)
  /\ ~StartsOrEndsWithUnderscore(s)
  /\ ~HasDoubleUnderscore(s)

(***************************************************************************)
(* The client's validators: validateRobloxUsername (roblox-api.ts 13-51)   *)
(* and validateUsername (part_010 9-32).                                   *)
(***************************************************************************)
\* a line terminator, which the . of a regular expression does not match
HasLineTerminator(s) == \E i \in 1..Len(s) : s[i] \in {"\n", "\r"}

\* /^(?!.*__).*$/.test(s): .*$ has to reach the end of the input
NoConsecutiveUnderscoresTest(s) ==
  ~HasLineTerminator(s) /\ ~\E i \in 1..(Len(s) - 1) : s[i] = "_" /\ s[i + 1] = "_"

\* mutant: the lookbehind is dropped, /^(?!_).*$/
NoStartEndUnderscoreTestStartOnly(s) ==
  /\ ~HasLineTerminator(s)
  /\ ~(Len(s) >= 1 /\ s[1] = "_")

\* /^(?!_).*(?<!_)$/.test(s)
NoStartEndUnderscoreTest(s) ==
  /\ ~HasLineTerminator(s)
  /\ ~(Len(s) >= 1 /\ s[1] = "_")
  /\ ~(Len(s) >= 1 /\ s[Len(s)] = "_")

\* the errors array validateRobloxUsername builds
ClientErrors(s) ==
  (IF Len(s) < MIN_LEN THEN << "Username must be at least 3 characters" >> ELSE << >>)
  \o (IF Len(s) > MAX_LEN THEN << "Username must be at most 20 characters" >> ELSE << >>)
  \o (IF ~MatchesPattern(s)
        THEN << "Username can only contain letters, numbers, and underscores" >>
        ELSE << >>)
  \o (IF ~NoConsecutiveUnderscoresTest(s)
        THEN << "Username cannot contain consecutive underscores" >> ELSE << >>)
  \o (IF ~NoStartEndUnderscoreTest(s)
        THEN << "Username cannot start or end with underscore" >> ELSE << >>)

validateRobloxUsername(s) ==
  [isValid |-> Len(ClientErrors(s)) = 0, errors |-> ClientErrors(s)]

validateUsername(s) ==
  IF s = << >> \/ Len(Trim(s)) = 0
    THEN [isValid |-> FALSE, errors |-> << "Username is required" >>]
  ELSE IF ~validateRobloxUsername(Trim(s)).isValid
    THEN [isValid |-> FALSE, errors |-> validateRobloxUsername(Trim(s)).errors]
  ELSE [isValid |-> TRUE, errors |-> << >>]

\* mutant: a name that fails the schema is reported and processed all the
\* same (no continue after the catch)
ValidatedOfAll(us) == us

\* the two partitions built by the validation loop of the bulk routes
ValidatedOf(us) == SelectSeq(us, SchemaAccepts)

\* mutant: the errors are collected newest first (unshift for push)
RECURSIVE ValidationErrorsNewestFirst(_)
ValidationErrorsNewestFirst(us) ==
  IF us = << >> THEN << >>
  ELSE IF SchemaAccepts(Head(us)) THEN ValidationErrorsNewestFirst(Tail(us))
  ELSE ValidationErrorsNewestFirst(Tail(us))
         \o << [username |-> Head(us), error |-> "Invalid username format"] >>

SchemaRejects(s) == ~SchemaAccepts(s)
ValidationErrorsOf(us) ==
  LET failed == SelectSeq(us, SchemaRejects)
  IN  [i \in 1..Len(failed) |->
         [username |-> failed[i], error |-> "Invalid username format"]]

(***************************************************************************)
(* checkRateLimit (routes.ts 28-43), split into its result and its effect. *)
(***************************************************************************)
IPs == {"ip1"}

\* mutant: the window already counts as over at resetTime itself
WindowOpenUntilReset(store, ip, t) == ip \in DOMAIN store /\ ~(t >= store[ip].resetTime)

WindowOpen(store, ip, t) == ip \in DOMAIN store /\ ~(t > store[ip].resetTime)

\* mutant: the limit is compared with > and an eleventh call gets through
LimitReachedOffByOne(entry) == entry.count > RATE_LIMIT_MAX

LimitReached(entry) == entry.count >= RATE_LIMIT_MAX

\* mutant: the limit is never enforced
RateLimitAlwaysAllows(store, ip, t) == TRUE

\* the boolean checkRateLimit returns
checkRateLimit(store, ip, t) ==
  IF ~WindowOpen(store, ip, t) THEN TRUE
  ELSE IF LimitReached(store[ip]) THEN FALSE
  ELSE TRUE

\* mutant: an admitted call of an open window is not counted
RateLimitStoreAfterNoIncrement(store, ip, t) ==
  IF ~WindowOpen(store, ip, t)
    THEN [k \in DOMAIN store \cup {ip} |->
            IF k = ip THEN [count |-> 1, resetTime |-> t + RATE_LIMIT_WINDOW]
                      ELSE store[k]]
  ELSE store

\* mutant: a rejected call starts the minute again
RateLimitStoreAfterRejectExtends(store, ip, t) ==
  IF ~WindowOpen(store, ip, t)
    THEN [k \in DOMAIN store \cup {ip} |->
            IF k = ip THEN [count |-> 1, resetTime |-> t + RATE_LIMIT_WINDOW]
                      ELSE store[k]]
  ELSE IF LimitReached(store[ip])
    THEN [store EXCEPT ![ip].resetTime = t + RATE_LIMIT_WINDOW]
  ELSE [store EXCEPT ![ip].count = @ + 1]

\* mutant: one window for all clients (the key of the map is not the ip)
RateLimitStoreAfterOneWindow(store, ip, t) ==
  IF ~WindowOpen(store, ip, t)
    THEN [k \in DOMAIN store \cup {ip} |->
            [count |-> 1, resetTime |-> t + RATE_LIMIT_WINDOW]]
  ELSE IF LimitReached(store[ip]) THEN store
  ELSE [k \in DOMAIN store |-> [store[k] EXCEPT !.count = @ + 1]]

\* rateLimitStore after the call
RateLimitStoreAfter(store, ip, t) ==
  IF ~WindowOpen(store, ip, t)
    THEN [k \in DOMAIN store \cup {ip} |->
            IF k = ip THEN [count |-> 1, resetTime |-> t + RATE_LIMIT_WINDOW]
                      ELSE store[k]]
  ELSE IF LimitReached(store[ip]) THEN store
  ELSE [store EXCEPT ![ip].count = @ + 1]

\* the entry of a client as a call at time t finds it
EntryOf(store, ip, t) ==
  IF ip \in DOMAIN store
    THEN [present |-> TRUE, count |-> store[ip].count,
          resetTime |-> store[ip].resetTime, at |-> t]
    ELSE [present |-> FALSE, count |-> 0, resetTime |-> 0, at |-> t]

(***************************************************************************)
(* The availability resolver: getRobloxUsernameDetails and                 *)
(* fallbackUsernameCheck (routes.ts 50-157).                               *)
(***************************************************************************)
None == [kind |-> "none"]
Return(v) == [kind |-> "return", verdict |-> v]
Throw(e) == [kind |-> "throw", error |-> e]

\* response.ok
ResponseOk(status) == status >= 200 /\ status <= 299

\* contentType && contentType.includes('application/json'), on the header
\* values the model sends
JsonContentTypes == {"application/json", "application/json; charset=utf-8"}
IsJsonContentType(ct) == Truthy(ct) /\ ct.val \in JsonContentTypes

JsObj(code, message) == [type |-> "object", code |-> code, message |-> message]

\* data.code / data.data throw a TypeError when data is null
PropertyReadThrows(data) == data.type \in {"null", "undefined"}

\* mutant: !data.code for the typeof test
CodeFalsy(data) == data.type # "object" \/ ~Truthy(data.code)

\* typeof data.code === 'undefined'
CodeUndefined(data) == data.type # "object" \/ data.code.type = "undefined"

\* mutant: case 2 keeps the isAvailable of case 0
ClassifyPrimaryCensoredAvailable(data) ==
  CASE IsNum(data.code, 0) ->
         [isAvailable |-> TRUE, status |-> "available", message |-> JsUndefined]
    [] IsNum(data.code, 1) ->
         [isAvailable |-> FALSE, status |-> "taken", message |-> data.message]
    [] IsNum(data.code, 2) ->
         [isAvailable |-> TRUE, status |-> "censored",
          message |-> JsOr(data.message, JsStr("Username contains inappropriate content"))]
    [] IsNum(data.code, 10) ->
         [isAvailable |-> FALSE, status |-> "too_short",
          message |-> JsOr(data.message, JsStr("Username is too short"))]
    [] IsNum(data.code, 11) ->
         [isAvailable |-> FALSE, status |-> "too_long",
          message |-> JsOr(data.message, JsStr("Username is too long"))]
    [] IsNum(data.code, 12) ->
         [isAvailable |-> FALSE, status |-> "invalid_characters",
          message |-> JsOr(data.message, JsStr("Username contains invalid characters"))]
    [] OTHER ->
         [isAvailable |-> FALSE, status |-> "unknown",
          message |-> JsOr(data.message, JsStr("Unknown validation error"))]

\* the switch over data.code (routes.ts 92-107)
ClassifyPrimary(data) ==
  CASE IsNum(data.code, 0) ->
         [isAvailable |-> TRUE, status |-> "available", message |-> JsUndefined]
    [] IsNum(data.code, 1) ->
         [isAvailable |-> FALSE, status |-> "taken", message |-> data.message]
    [] IsNum(data.code, 2) ->
         [isAvailable |-> FALSE, status |-> "censored",
          message |-> JsOr(data.message, JsStr("Username contains inappropriate content"))]
    [] IsNum(data.code, 10) ->
         [isAvailable |-> FALSE, status |-> "too_short",
          message |-> JsOr(data.message, JsStr("Username is too short"))]
    [] IsNum(data.code, 11) ->
         [isAvailable |-> FALSE, status |-> "too_long",
          message |-> JsOr(data.message, JsStr("Username is too long"))]
    [] IsNum(data.code, 12) ->
         [isAvailable |-> FALSE, status |-> "invalid_characters",
          message |-> JsOr(data.message, JsStr("Username contains invalid characters"))]
    [] OTHER ->
         [isAvailable |-> FALSE, status |-> "unknown",
          message |-> JsOr(data.message, JsStr("Unknown validation error"))]

\* data.data: undefined on a primitive such as a number
DataOf(data) == IF data.type = "object" THEN data.data ELSE JsUndefined

\* mutant: the length test is inverted
FallbackIsAvailableInverted(data) ==
  \/ ~Truthy(DataOf(data))
  \/ (DataOf(data).type = "array" /\ DataOf(data).len > 0)

\* mutant: only an empty array counts
\* (Array.isArray(data.data) && data.data.length === 0)
FallbackIsAvailableArrayOnly(data) ==
  DataOf(data).type = "array" /\ DataOf(data).len = 0

\* const isAvailable = !data.data || data.data.length === 0
FallbackIsAvailable(data) ==
  \/ ~Truthy(DataOf(data))
  \/ (DataOf(data).type = "array" /\ DataOf(data).len = 0)

\* the verdict built from a parsed fallback body (routes.ts 141-147)
ClassifyFallback(data) ==
  IF FallbackIsAvailable(data)
    THEN [isAvailable |-> TRUE, status |-> "available", message |-> JsUndefined]
    ELSE [isAvailable |-> FALSE, status |-> "taken",
          message |-> JsStr("Username is already taken")]

\* mutant: the catch block answers with the optimistic default
FallbackCatchOptimistic(error) ==
  Return([isAvailable |-> TRUE, status |-> "available", message |-> JsUndefined])

\* mutant: the catch block rethrows
FallbackCatchRethrows(error) == Throw(error)

\* the catch block of fallbackUsernameCheck (routes.ts 148-156)
FallbackCatch(error) ==
  Return([isAvailable |-> FALSE, status |-> "error",
          message |-> JsStr("Could not verify username availability at this time")])

(***************************************************************************)
(* The History Store: MemStorage (storage.ts 18-84) and the operation the  *)
(* routes call on the database-backed store, clearUsernameChecks.          *)
(***************************************************************************)
\* mutant: saveUsernameCheck reads the counter without advancing it
NextCheckIdStuck(id) == id

\* this.currentCheckId++ leaves the counter one higher
NextCheckId(id) == id + 1

\* mutant: the map is keyed by the username, so that a later check of a
\* name takes the place of the earlier one
MapSetByUsername(checks, check) ==
  IF \E i \in 1..Len(checks) : checks[i].username = check.username
    THEN [i \in 1..Len(checks) |->
            IF checks[i].username = check.username THEN check ELSE checks[i]]
    ELSE Append(checks, check)

\* this.usernameChecks.set(id, check): the value under an id that is in the
\* map is replaced where it stands, a new id is added behind the others
MapSet(checks, check) ==
  IF \E i \in 1..Len(checks) : checks[i].id = check.id
    THEN [i \in 1..Len(checks) |->
            IF checks[i].id = check.id THEN check ELSE checks[i]]
    ELSE Append(checks, check)

\* where a record goes in an array sorted by descending checkedAt when the
\* sort is stable: behind every record that is not older
RECURSIVE InsertByCheckedAt(_, _)
InsertByCheckedAt(sorted, c) ==
  IF sorted = << >> THEN << c >>
  ELSE IF Head(sorted).checkedAt >= c.checkedAt
    THEN << Head(sorted) >> \o InsertByCheckedAt(Tail(sorted), c)
  ELSE << c >> \o sorted

\* .sort((a, b) => b.checkedAt.getTime() - a.checkedAt.getTime()) over the
\* map's values, which come in insertion order
RECURSIVE SortByCheckedAtDesc(_, _)
SortByCheckedAtDesc(checks, sorted) ==
  IF checks = << >> THEN sorted
  ELSE SortByCheckedAtDesc(Tail(checks), InsertByCheckedAt(sorted, Head(checks)))

\* Array.prototype.slice(0, n), n of either sign
SliceFromStart(s, n) ==
  IF n >= 0 THEN SliceTo(s, n)
  ELSE IF Len(s) + n > 0 THEN SubSeq(s, 1, Len(s) + n)
  ELSE << >>

\* mutant: the records are returned in insertion order, oldest first
getRecentChecksUnsorted(checks, limit) == SliceFromStart(checks, limit)

\* MemStorage.getRecentChecks
getRecentChecks(checks, limit) ==
  SliceFromStart(SortByCheckedAtDesc(checks, << >>), limit)

\* mutant: availableCount without its filter
CountAvailableUnfiltered(checks) == Len(checks)

\* checks.filter(c => c.isAvailable).length
RECURSIVE CountAvailable(_)
CountAvailable(checks) ==
  IF checks = << >> THEN 0
  ELSE (IF Head(checks).isAvailable THEN 1 ELSE 0) + CountAvailable(Tail(checks))

\* checks.filter(c => !c.isAvailable).length
CountTaken(checks) == Cardinality({i \in 1..Len(checks) : ~checks[i].isAvailable})

\* MemStorage.getUsageStats (avgResponseTime is the constant 0.8)
getUsageStats(checks) ==
  [totalChecks |-> Len(checks),
   availableCount |-> CountAvailable(checks),
   takenCount |-> CountTaken(checks),
   avgResponseTime |-> "0.8"]

\* mutant: clearing keeps the newest record
clearUsernameChecksKeepsLast(checks) ==
  IF checks = << >> THEN << >> ELSE << checks[Len(checks)] >>

\* storage.clearUsernameChecks(): the store afterwards
clearUsernameChecks(checks) == << >>

\* req.query.limit of GET /api/username/recent
LimitQueries ==
  {[kind |-> "absent", n |-> 0]}
    \cup {[kind |-> "int", n |-> n] : n \in {0, 1, 2}}

\* parseInt(req.query.limit as string) || 10
LimitOf(query) ==
  IF query.kind = "int" /\ query.n # 0 THEN query.n ELSE DEFAULT_LIMIT

(***************************************************************************)
(* State.                                                                  *)
(***************************************************************************)
VARIABLES
  now,             \* Date.now(), in milliseconds
  stalls,          \* how often an endpoint has stayed silent up to the timeout
  rateLimitStore,  \* Map ip -> {count, resetTime}
  usernameChecks,  \* the History Store, in insertion order
  currentCheckId,  \* next id the store hands out
  active,          \* the request slots in use
  req,             \* per request: the handler's locals and its position
  rl,              \* observations of the direct calls of checkRateLimit
  val,             \* the string handed to the validators and what they said
  hist             \* the history routes served so far, with their answers

vars == << now, stalls, rateLimitStore, usernameChecks, currentCheckId, active,
          req, rl, val, hist >>

Reqs == {"r1", "r2"}

\* the clients whose calls of checkRateLimit are followed one by one
RLKeys == {"ip1", "ip2"}

\* before any direct call: per client the booleans returned since its window
\* was created and the times of its admitted calls
NoCalls ==
  [calls |-> 0, ticks |-> 0, last |-> [kind |-> "none"],
   results |-> [k \in RLKeys |-> << >>],
   admittedAt |-> [k \in RLKeys |-> << >>]]

\* no validator has been applied yet: the string, and per validator "none"
\* or its answer "accept" / "reject"
NoVal == [raw |-> << >>, schema |-> "none", client |-> "none", wrapped |-> "none"]

\* the locals of one resolver call (getRobloxUsernameDetails and the
\* fallbackUsernameCheck it may call), kept until the caller has consumed
\* the result
NoResolve ==
  [username |-> << >>, calls |-> << >>, pfetch |-> None, pbody |-> None,
   ffetch |-> None, fbody |-> None, inTry |-> FALSE, result |-> None]

IdleReq ==
  [pc |-> "idle", route |-> "none", ip |-> "none",
   usernames |-> << >>, validatedUsernames |-> << >>,
   validationErrors |-> << >>, results |-> << >>, processed |-> 0,
   idx |-> 0, username |-> << >>, isAvailable |-> FALSE,
   res |-> NoResolve, deadline |-> 0, wakeAt |-> 0, filename |-> "",
   response |-> None,
   \* observations: the request as received, the resolver calls started (with
   \* their start time), the calls in flight, the 200 ms waits completed and
   \* whether a resolver call ended by throwing
   input |-> None, callLog |-> << >>, outstanding |-> 0, waits |-> 0,
   raised |-> FALSE,
   \* observations: the client's window as the request found it, and for
   \* each result entry pushed after a resolved call which verdict it is for
   seen |-> None, origin |-> {}]

\* username pool of the requests
U_ab == << "a", "b" >>
U_good == << "g", "o", "o", "d", "_", "n", "a", "m", "e" >>
U_bad == << "b", "a", "d", "_", "_", "n", "a", "m", "e" >>
U_abc == << "a", "b", "c", "_", "1", "2", "3" >>
Names == {U_ab, U_good, U_bad, U_abc}

SeqsUpTo(S, n) == UNION {[1..k -> S] : k \in 0..n}

\* the sequences of SeqsUpTo without a repeated element
DistinctSeqsUpTo(S, n) ==
  {s \in SeqsUpTo(S, n) : \A i, j \in 1..Len(s) : s[i] = s[j] => i = j}

\* lines as a person types them: too short, empty, padded with white space
FileLines == {U_ab, << >>, << " " >> \o U_abc \o << "\r" >>}

\* req.body of POST /api/username/bulk-check: a value that is not an object
\* with an array of strings, or such an array: of pairwise different names,
\* or of lines as they are typed (the uploaded files below repeat names)
BulkBodies ==
  {[wellTyped |-> FALSE, usernames |-> << >>]}
    \cup {[wellTyped |-> TRUE, usernames |-> us] : us \in DistinctSeqsUpTo(Names, MaxBatch)}
    \cup {[wellTyped |-> TRUE, usernames |-> ls] : ls \in SeqsUpTo(FileLines, MaxFileLines)}

\* bulkUsernameSchema.parse: z.array(z.string()).min(1)
BulkSchemaAccepts(body) == body.wellTyped /\ Len(body.usernames) >= 1

\* req.body of POST /api/username/check
CheckBodies ==
  {[wellTyped |-> FALSE, username |-> << >>]}
    \cup {[wellTyped |-> TRUE, username |-> u] : u \in Names}

\* uploaded files: lines joined by "\n"

RECURSIVE JoinLines(_)
JoinLines(ls) ==
  IF ls = << >> THEN << >>
  ELSE IF Len(ls) = 1 THEN Head(ls)
  ELSE Head(ls) \o << "\n" >> \o JoinLines(Tail(ls))

NoFile == [present |-> FALSE, originalname |-> "", content |-> << >>]

Files ==
  {NoFile} \cup
  {[present |-> TRUE, originalname |-> "names.txt", content |-> JoinLines(ls)] :
     ls \in SeqsUpTo(FileLines, MaxFileLines)}

(***************************************************************************)
(* Steps of the resolver, as functions on the request's locals.            *)
(***************************************************************************)
\* fallbackUsernameCheck up to its await fetch (routes.ts 115-132)
StartFallback(q, inTry, t) ==
  [q EXCEPT !.pc = "fallback_fetch",
            !.deadline = t + FETCH_TIMEOUT,
            !.res.calls = Append(@, "fallback"),
            !.res.inTry = inTry,
            !.res.ffetch = None,
            !.res.fbody = None]

\* getRobloxUsernameDetails up to its await fetch (routes.ts 50-63)
StartPrimary(q, username, t) ==
  [q EXCEPT !.pc = "primary_fetch",
            !.deadline = t + FETCH_TIMEOUT,
            !.res = [NoResolve EXCEPT !.username = username,
                                      !.calls = << "primary" >>],
            !.callLog = Append(@, [username |-> username, at |-> t]),
            !.outstanding = @ + 1]

\* the resolver hands its result to the awaiting caller
ResolverSettles(q, result) ==
  [q EXCEPT !.pc = "resolved", !.res.result = result,
            !.outstanding = @ - 1,
            !.raised = @ \/ result.kind = "throw"]

\* fallbackUsernameCheck settles with `result`; a throw inside the try block
\* of getRobloxUsernameDetails lands in its catch block (routes.ts 108-111),
\* which calls the fallback again
FallbackSettles(q, result, t) ==
  IF result.kind = "throw" /\ q.res.inTry
    THEN StartFallback(q, FALSE, t)
    ELSE ResolverSettles(q, result)

\* after await fetch of the primary endpoint (routes.ts 65-81)
AfterPrimaryFetch(q, o, t) ==
  LET q1 == [q EXCEPT !.res.pfetch = o] IN
  IF o.kind # "response" THEN StartFallback(q1, FALSE, t)
  ELSE IF ~ResponseOk(o.status) THEN StartFallback(q1, TRUE, t)
  ELSE IF ~IsJsonContentType(o.contentType) THEN StartFallback(q1, TRUE, t)
  ELSE [q1 EXCEPT !.pc = "primary_json"]

\* after await response.json() of the primary endpoint (routes.ts 80-107)
AfterPrimaryJson(q, o, t) ==
  LET q1 == [q EXCEPT !.res.pbody = o] IN
  IF o.kind # "body" THEN StartFallback(q1, TRUE, t)
  ELSE IF PropertyReadThrows(o.data) THEN StartFallback(q1, FALSE, t)
  ELSE IF CodeUndefined(o.data) THEN StartFallback(q1, TRUE, t)
  ELSE ResolverSettles(q1, Return(ClassifyPrimary(o.data)))

\* after await fetch of the fallback endpoint (routes.ts 134-140)
AfterFallbackFetch(q, o, t) ==
  LET q1 == [q EXCEPT !.res.ffetch = o] IN
  IF o.kind # "response" THEN FallbackSettles(q1, FallbackCatch("fetch"), t)
  ELSE IF ~ResponseOk(o.status) THEN FallbackSettles(q1, FallbackCatch("status"), t)
  ELSE [q1 EXCEPT !.pc = "fallback_json"]

\* after await response.json() of the fallback endpoint (routes.ts 140-156)
AfterFallbackJson(q, o, t) ==
  LET q1 == [q EXCEPT !.res.fbody = o] IN
  IF o.kind # "body" THEN FallbackSettles(q1, FallbackCatch("json"), t)
  ELSE IF PropertyReadThrows(o.data) THEN FallbackSettles(q1, FallbackCatch("type"), t)
  ELSE FallbackSettles(q1, Return(ClassifyFallback(o.data)), t)

(***************************************************************************)
(* The route handlers (routes.ts 162-416), as functions on the locals.     *)
(***************************************************************************)
\* mutant: taken is counted with !r.isAvailable, which null passes too
CountWhereFalsy(rs, b) ==
  Cardinality({i \in 1..Len(rs) :
                 IF b THEN rs[i].isAvailable = JsBool(TRUE)
                      ELSE rs[i].isAvailable # JsBool(TRUE)})

\* results.filter(r => r.isAvailable === b).length
CountWhere(rs, b) ==
  Cardinality({i \in 1..Len(rs) : IsBool(rs[i].isAvailable, b)})

\* the summary object of res.json (routes.ts 285-291, 401-407)
Summary(q) ==
  [total |-> Len(q.usernames),
   processed |-> Len(q.validatedUsernames),
   errors |-> Len(q.validationErrors),
   available |-> CountWhere(q.results, TRUE),
   taken |-> CountWhere(q.results, FALSE)]

\* res.json({results, summary}) after the loop (routes.ts 283-292, 399-409)
RespondBulk(q) ==
  [q EXCEPT !.pc = "done",
            !.response =
              IF q.route = "file"
                THEN [status |-> 200, results |-> q.results,
                      summary |-> Summary(q), filename |-> q.filename]
                ELSE [status |-> 200, results |-> q.results,
                      summary |-> Summary(q)]]

\* mutant: the catch block answers 400 whatever was thrown (no test for
\* z.ZodError)
RejectAlways400(q, status, message) ==
  [q EXCEPT !.pc = "done", !.response = [status |-> 400, message |-> message]]

\* an error answer: res.status(status).json({message})
Reject(q, status, message) ==
  [q EXCEPT !.pc = "done", !.response = [status |-> status, message |-> message]]

\* the head of the for-of loop over validatedUsernames: next username and the
\* call of checkRobloxUsername, or the end of the loop (routes.ts 245-247)
NextIteration(q, t) ==
  IF q.idx < Len(q.validatedUsernames)
    THEN StartPrimary([q EXCEPT !.idx = @ + 1,
                                !.username = q.validatedUsernames[q.idx + 1]],
                      q.validatedUsernames[q.idx + 1], t)
    ELSE RespondBulk(q)

\* validation loop and seeding of results (routes.ts 217-242, 340-364)
SeedBatch(q, usernames, t) ==
  LET errs == ValidationErrorsOf(usernames) IN
  [q EXCEPT
     !.usernames = usernames,
     !.validatedUsernames = ValidatedOf(usernames),
     !.validationErrors = errs,
     !.results =
       [i \in 1..Len(errs) |->
          [username |-> errs[i].username, isAvailable |-> JsNull,
           error |-> errs[i].error, timestamp |-> t]],
     !.processed = 0,
     !.idx = 0]

\* mutant: the loop body is started for every validated username at once
\* (validatedUsernames.map(async ...) for the awaiting for-of loop)
BeginBatchFanOut(q, usernames, t) ==
  LET q1 == SeedBatch(q, usernames, t)
      q2 == NextIteration(q1, t)
      v == q1.validatedUsernames
  IN IF Len(v) = 0 THEN q2
     ELSE [q2 EXCEPT !.callLog = [i \in 1..Len(v) |-> [username |-> v[i], at |-> t]],
                     !.outstanding = Len(v)]

\* the handler from the validation loop to the first await of the
\* processing loop (routes.ts 217-247, 340-369)
BeginBatch(q, usernames, t) == NextIteration(SeedBatch(q, usernames, t), t)

\* mutant: the catch block counts the username but records no entry
LoopCatchDropsEntry(q, message, t) ==
  NextIteration([q EXCEPT !.processed = @ + 1, !.res = NoResolve], t)

\* mutant: no try/catch around the loop body, the error reaches the
\* handler's outer catch
LoopCatchAborts(q, message, t) ==
  [Reject(q, 500, "Failed to process bulk check") EXCEPT !.res = NoResolve]

\* what is noted about the verdict behind a result entry
VerdictClass(status) == IF status \in {"error", "taken"} THEN status ELSE "other"

\* mutant: the catch block reports the username as taken
LoopCatchReportsTaken(q, message, t) ==
  LET q1 == [q EXCEPT
               !.results = Append(@, [username |-> q.username,
                                      isAvailable |-> JsBool(FALSE),
                                      timestamp |-> t]),
               !.processed = @ + 1,
               !.res = NoResolve]
  IN NextIteration(q1, t)

\* the catch block of the loop body (routes.ts 272-280, 388-396)
LoopCatch(q, message, t) ==
  LET q1 == [q EXCEPT
               !.results = Append(@, [username |-> q.username,
                                      isAvailable |-> JsNull,
                                      error |-> message, timestamp |-> t]),
               !.processed = @ + 1,
               !.res = NoResolve]
  IN NextIteration(q1, t)

\* the loop body after await storage.saveUsernameCheck (routes.ts 254-271)
LoopAfterSave(q, check, t) ==
  LET q1 == [q EXCEPT
               !.results = Append(@, [username |-> q.username,
                                      isAvailable |-> JsBool(q.isAvailable),
                                      timestamp |-> check.checkedAt]),
               !.origin = @ \cup {[at |-> Len(q.results) + 1,
                                   verdict |-> VerdictClass(q.res.result.verdict.status)]},
               !.processed = @ + 1,
               !.res = NoResolve]
  IN IF q1.processed < Len(q1.validatedUsernames)
       THEN [q1 EXCEPT !.pc = "delay", !.wakeAt = t + LOOP_DELAY]
       ELSE NextIteration(q1, t)

\* POST /api/username/check after await storage.saveUsernameCheck
\* (routes.ts 182-188)
RespondCheck(q, check) ==
  [q EXCEPT !.pc = "done",
            !.res = NoResolve,
            !.response = [status |-> 200, username |-> q.username,
                          isAvailable |-> q.res.result.verdict.isAvailable,
                          verdictStatus |-> q.res.result.verdict.status,
                          message |-> q.res.result.verdict.message,
                          timestamp |-> check.checkedAt]]

\* mutant: a verdict with status error is treated like a thrown error and
\* never reaches storage.saveUsernameCheck
ResumeSkipsErrors(q, t) ==
  IF q.pc # "resolved" THEN q
  ELSE IF q.res.result.kind = "return" /\ q.res.result.verdict.status # "error"
    THEN [q EXCEPT !.pc = "save",
                   !.isAvailable = q.res.result.verdict.isAvailable]
  ELSE IF q.route = "check"
    THEN [Reject(q, 500, "Failed to check username availability")
            EXCEPT !.res = NoResolve]
  ELSE LoopCatch(q, "Failed to check username", t)

\* the caller resumes once the resolver has settled: checkRobloxUsername
\* unwraps isAvailable and the handler calls storage.saveUsernameCheck
\* (routes.ts 45-48, 174-180, 247-252); a throw lands in the handler's catch
Resume(q, t) ==
  IF q.pc # "resolved" THEN q
  ELSE IF q.res.result.kind = "return"
    THEN [q EXCEPT !.pc = "save",
                   !.isAvailable = q.res.result.verdict.isAvailable]
  ELSE IF q.route = "check"
    THEN [Reject(q, 500, q.res.result.error) EXCEPT !.res = NoResolve]
  ELSE LoopCatch(q, q.res.result.error, t)

(***************************************************************************)
(* Actions.                                                                *)
(***************************************************************************)
Init ==
  /\ now = 0
  /\ stalls = 0
  /\ rateLimitStore = << >>
  /\ usernameChecks = << >>
  /\ currentCheckId = 1
  /\ active = {"r1"}
  /\ req = [r \in Reqs |-> IdleReq]
  /\ rl = NoCalls
  /\ val = NoVal
  /\ hist = << >>

\* mutant: the body is validated before checkRateLimit is called
CheckRequestValidatesFirst(r, ip, body) ==
  /\ r \in active /\ req[r].pc = "idle"
  /\ LET q == [req[r] EXCEPT !.route = "check", !.ip = ip, !.input = body,
                             !.seen = EntryOf(rateLimitStore, ip, now)] IN
     IF ~(body.wellTyped /\ SchemaAccepts(body.username))
       THEN /\ req' = [req EXCEPT ![r] = Reject(q, 400, "Invalid username format")]
            /\ rateLimitStore' = rateLimitStore
       ELSE /\ rateLimitStore' = RateLimitStoreAfter(rateLimitStore, ip, now)
            /\ req' = [req EXCEPT ![r] =
                 IF ~checkRateLimit(rateLimitStore, ip, now)
                   THEN Reject(q, 429, "Rate limit exceeded. Please wait before making more requests.")
                   ELSE StartPrimary([q EXCEPT !.username = body.username],
                                     body.username, now)]
  /\ UNCHANGED << now, stalls, usernameChecks, currentCheckId, active, rl, val, hist >>

\* POST /api/username/check (routes.ts 162-202), up to the first await
CheckRequest(r, ip, body) ==
  /\ r \in active /\ req[r].pc = "idle"
  /\ rateLimitStore' = RateLimitStoreAfter(rateLimitStore, ip, now)
  /\ LET q == [req[r] EXCEPT !.route = "check", !.ip = ip, !.input = body,
                             !.seen = EntryOf(rateLimitStore, ip, now)] IN
     req' = [req EXCEPT ![r] =
       IF ~checkRateLimit(rateLimitStore, ip, now)
         THEN Reject(q, 429, "Rate limit exceeded. Please wait before making more requests.")
       ELSE IF ~(body.wellTyped /\ SchemaAccepts(body.username))
         THEN Reject(q, 400, "Invalid username format")
       ELSE StartPrimary([q EXCEPT !.username = body.username],
                         body.username, now)]
  /\ UNCHANGED << now, stalls, usernameChecks, currentCheckId, active, rl, val, hist >>

\* the handler of POST /api/username/bulk-check from its first statement to
\* its first await, on the locals q0 of the invocation (routes.ts 205-247)
BulkCheckReceived(q0, ip, body, store, t) ==
  LET q == [q0 EXCEPT !.route = "bulk", !.ip = ip, !.input = body,
                      !.seen = EntryOf(store, ip, t)] IN
  IF ~checkRateLimit(store, ip, t)
    THEN Reject(q, 429, "Rate limit exceeded. Please wait before making more requests.")
  ELSE IF ~BulkSchemaAccepts(body)
    THEN Reject(q, 400, "Invalid input")
  ELSE BeginBatch(q, body.usernames, t)

\* the handler of POST /api/username/bulk-check-file from its first
\* statement to its first await (routes.ts 309-369)
BulkCheckFileReceived(q0, ip, file, store, t) ==
  LET q == [q0 EXCEPT !.route = "file", !.ip = ip, !.input = file,
                      !.filename = file.originalname,
                      !.seen = EntryOf(store, ip, t)] IN
  IF ~checkRateLimit(store, ip, t)
    THEN Reject(q, 429, "Rate limit exceeded. Please wait before making more requests.")
  ELSE IF ~file.present
    THEN Reject(q, 400, "No file uploaded")
  ELSE IF Len(ParseFile(file.content)) = 0
    THEN Reject(q, 400, "No valid usernames found in file")
  ELSE BeginBatch(q, ParseFile(file.content), t)

\* POST /api/username/bulk-check (routes.ts 205-306), up to the first await
BulkCheckRequest(r, ip, body) ==
  /\ r \in active /\ req[r].pc = "idle"
  /\ rateLimitStore' = RateLimitStoreAfter(rateLimitStore, ip, now)
  /\ req' = [req EXCEPT ![r] =
               BulkCheckReceived(req[r], ip, body, rateLimitStore, now)]
  /\ UNCHANGED << now, stalls, usernameChecks, currentCheckId, active, rl, val, hist >>

\* POST /api/username/bulk-check-file (routes.ts 309-416), up to the first
\* await
BulkCheckFileRequest(r, ip, file) ==
  /\ r \in active /\ req[r].pc = "idle"
  /\ rateLimitStore' = RateLimitStoreAfter(rateLimitStore, ip, now)
  /\ req' = [req EXCEPT ![r] =
               BulkCheckFileReceived(req[r], ip, file, rateLimitStore, now)]
  /\ UNCHANGED << now, stalls, usernameChecks, currentCheckId, active, rl, val, hist >>

(***************************************************************************)
(* What the two external endpoints can answer.                             *)
(***************************************************************************)
Rejected == [kind |-> "reject"]
Aborted == [kind |-> "abort"]
Response(status, ct) == [kind |-> "response", status |-> status, contentType |-> ct]
Body(data) == [kind |-> "body", data |-> data]

PrimaryFetchOutcomes ==
  {Rejected, Aborted, Response(500, JsStr("text/html"))}
    \cup {Response(200, ct) :
            ct \in {JsNull, JsStr("text/html"), JsStr("application/json"),
                    JsStr("application/json; charset=utf-8")}}

Codes ==
  {JsUndefined, JsNull, JsStr("0"), JsNum(0), JsNum(1), JsNum(2), JsNum(3),
   JsNum(10), JsNum(11), JsNum(12)}
Messages == {JsUndefined, JsStr(""), JsStr("bad")}

PrimaryJsonOutcomes ==
  {Rejected, Body(JsNull), Body(JsNum(5))}
    \cup {Body(JsObj(c, m)) : c \in Codes, m \in Messages}

FallbackFetchOutcomes ==
  {Rejected, Aborted, Response(500, JsStr("text/html")),
   Response(200, JsStr("application/json"))}

FallbackJsonOutcomes ==
  {Rejected, Body(JsNull), Body(JsNum(5))}
    \cup {Body([type |-> "object", data |-> d]) :
            d \in {JsUndefined, JsNull, JsArr(0), JsArr(1)}}

\* controller.abort() fires no earlier than 10 s after the call
MayHappen(q, o) == o.kind = "abort" => now >= q.deadline

\* await fetch(primary) settles
PrimaryFetchSettles(r, o) ==
  /\ r \in active /\ req[r].pc = "primary_fetch"
  /\ MayHappen(req[r], o)
  /\ req' = [req EXCEPT ![r] = Resume(AfterPrimaryFetch(req[r], o, now), now)]
  /\ UNCHANGED << now, stalls, rateLimitStore, usernameChecks, currentCheckId, active, rl, val, hist >>

\* await response.json() of the primary response settles
PrimaryJsonSettles(r, o) ==
  /\ r \in active /\ req[r].pc = "primary_json"
  /\ req' = [req EXCEPT ![r] = Resume(AfterPrimaryJson(req[r], o, now), now)]
  /\ UNCHANGED << now, stalls, rateLimitStore, usernameChecks, currentCheckId, active, rl, val, hist >>

\* await fetch(fallback) settles
FallbackFetchSettles(r, o) ==
  /\ r \in active /\ req[r].pc = "fallback_fetch"
  /\ MayHappen(req[r], o)
  /\ req' = [req EXCEPT ![r] = Resume(AfterFallbackFetch(req[r], o, now), now)]
  /\ UNCHANGED << now, stalls, rateLimitStore, usernameChecks, currentCheckId, active, rl, val, hist >>

\* await response.json() of the fallback response settles
FallbackJsonSettles(r, o) ==
  /\ r \in active /\ req[r].pc = "fallback_json"
  /\ req' = [req EXCEPT ![r] = Resume(AfterFallbackJson(req[r], o, now), now)]
  /\ UNCHANGED << now, stalls, rateLimitStore, usernameChecks, currentCheckId, active, rl, val, hist >>

\* MemStorage.saveUsernameCheck (storage.ts 48-57)
NewCheck(insertCheck, id, t) ==
  [id |-> id, username |-> insertCheck.username,
   isAvailable |-> insertCheck.isAvailable, checkedAt |-> t]

\* mutant: results is one array of the module, which every batch handler
\* under way pushes to and answers with
SaveFulfilsSharedResults(r) ==
  /\ r \in active /\ req[r].pc = "save"
  /\ LET check == NewCheck([username |-> req[r].username,
                            isAvailable |-> req[r].isAvailable],
                           currentCheckId, now)
         entry == [username |-> req[r].username,
                   isAvailable |-> JsBool(req[r].isAvailable),
                   timestamp |-> check.checkedAt]
     IN
     /\ usernameChecks' = MapSet(usernameChecks, check)
     /\ currentCheckId' = NextCheckId(currentCheckId)
     /\ req' = [x \in Reqs |->
          IF x = r
            THEN (IF req[r].route = "check" THEN RespondCheck(req[r], check)
                                           ELSE LoopAfterSave(req[r], check, now))
          ELSE IF req[x].route \in {"bulk", "file"} /\ req[x].pc \notin {"idle", "done"}
            THEN [req[x] EXCEPT !.results = Append(@, entry)]
          ELSE req[x]]
  /\ UNCHANGED << now, stalls, rateLimitStore, active, rl, val, hist >>

\* await storage.saveUsernameCheck fulfils, and the handler goes on
SaveFulfils(r) ==
  /\ r \in active /\ req[r].pc = "save"
  /\ LET check == NewCheck([username |-> req[r].username,
                            isAvailable |-> req[r].isAvailable],
                           currentCheckId, now) IN
     /\ usernameChecks' = MapSet(usernameChecks, check)
     /\ currentCheckId' = NextCheckId(currentCheckId)
     /\ req' = [req EXCEPT ![r] =
          IF req[r].route = "check" THEN RespondCheck(req[r], check)
                                    ELSE LoopAfterSave(req[r], check, now)]
  /\ UNCHANGED << now, stalls, rateLimitStore, active, rl, val, hist >>

\* await storage.saveUsernameCheck rejects and the handler's catch block
\* runs. MemStorage never rejects; the database-backed store the routes are
\* written against (they call storage.clearUsernameChecks) does when the
\* database is unreachable.
SaveRejects(r) ==
  /\ r \in active /\ req[r].pc = "save"
  /\ req' = [req EXCEPT ![r] =
       IF req[r].route = "check"
         THEN [Reject(req[r], 500, "store failure") EXCEPT !.res = NoResolve]
         ELSE LoopCatch(req[r], "store failure", now)]
  /\ UNCHANGED << now, stalls, rateLimitStore, usernameChecks, currentCheckId, active, rl, val, hist >>

\* the setTimeout(resolve, 200) of the loop fires and the loop goes on
DelayEnds(r) ==
  /\ r \in active /\ req[r].pc = "delay"
  /\ now >= req[r].wakeAt
  /\ req' = [req EXCEPT ![r] = NextIteration([req[r] EXCEPT !.waits = @ + 1], now)]
  /\ UNCHANGED << now, stalls, rateLimitStore, usernameChecks, currentCheckId, active, rl, val, hist >>

\* time passes until the 200 ms timer of a waiting loop is due
WakeTimes == {req[r].wakeAt : r \in {x \in active : req[x].pc = "delay"}}

DelayElapses ==
  /\ \E t \in WakeTimes : t > now /\ now' = t
  /\ UNCHANGED << stalls, rateLimitStore, usernameChecks, currentCheckId, active, req, rl, val, hist >>

\* an endpoint stays silent until the 10 s abort timer of a fetch is due
Deadlines ==
  {req[r].deadline :
     r \in {x \in active : req[x].pc \in {"primary_fetch", "fallback_fetch"}}}

EndpointStalls ==
  /\ stalls < MaxStalls
  /\ \E t \in Deadlines : t > now /\ now' = t
  /\ stalls' = stalls + 1
  /\ UNCHANGED << rateLimitStore, usernameChecks, currentCheckId, active, req, rl, val, hist >>

Next ==
  \/ \E r \in Reqs, ip \in IPs, body \in CheckBodies : CheckRequest(r, ip, body)
  \/ \E r \in Reqs, ip \in IPs, body \in BulkBodies : BulkCheckRequest(r, ip, body)
  \/ \E r \in Reqs, ip \in IPs, file \in Files : BulkCheckFileRequest(r, ip, file)
  \/ \E r \in Reqs, o \in PrimaryFetchOutcomes : PrimaryFetchSettles(r, o)
  \/ \E r \in Reqs, o \in PrimaryJsonOutcomes : PrimaryJsonSettles(r, o)
  \/ \E r \in Reqs, o \in FallbackFetchOutcomes : FallbackFetchSettles(r, o)
  \/ \E r \in Reqs, o \in FallbackJsonOutcomes : FallbackJsonSettles(r, o)
  \/ \E r \in Reqs : SaveFulfils(r)
  \/ \E r \in Reqs : SaveRejects(r)
  \/ \E r \in Reqs : DelayEnds(r)
  \/ DelayElapses
  \/ EndpointStalls

Spec == Init /\ [][Next]_vars

(***************************************************************************)
(* checkRateLimit on its own: the calls every route makes as its first     *)
(* statement (routes.ts 166, 209, 313), followed one by one with the       *)
(* clock moving between them.                                              *)
(***************************************************************************)
\* the clock moves by a millisecond or by a whole window length
TimeSteps == {1, RATE_LIMIT_WINDOW}

\* one call of checkRateLimit(ip) at the current time
CheckRateLimitCall(ip) ==
  /\ rl.calls < MaxCalls
  /\ LET allowed == checkRateLimit(rateLimitStore, ip, now)
         after == RateLimitStoreAfter(rateLimitStore, ip, now)
         created == \/ ip \notin DOMAIN rateLimitStore
                    \/ after[ip].resetTime # rateLimitStore[ip].resetTime
     IN /\ rateLimitStore' = after
        /\ rl' = [rl EXCEPT
             !.calls = @ + 1,
             !.last = [kind |-> "call", ip |-> ip, allowed |-> allowed,
                       before |-> EntryOf(rateLimitStore, ip, now),
                       after |-> EntryOf(after, ip, now),
                       others |-> [k \in DOMAIN rateLimitStore \ {ip} |->
                                     rateLimitStore[k] = after[k]]],
             !.results[ip] = IF created THEN << allowed >> ELSE Append(@, allowed),
             !.admittedAt[ip] = IF allowed THEN Append(@, now) ELSE @]
  /\ UNCHANGED << now, stalls, usernameChecks, currentCheckId, active, req, val, hist >>

\* Date.now() moves on between two calls
TimePasses(d) ==
  /\ rl.ticks < MaxTicks
  /\ now' = now + d
  /\ rl' = [rl EXCEPT !.ticks = @ + 1]
  /\ UNCHANGED << stalls, rateLimitStore, usernameChecks, currentCheckId, active,
                  req, val, hist >>

NextRL ==
  \/ \E ip \in RLKeys : CheckRateLimitCall(ip)
  \/ \E d \in TimeSteps : TimePasses(d)

SpecRL == Init /\ [][NextRL]_vars

(***************************************************************************)
(* The routes behind a window that earlier requests have filled: the       *)
(* states the server is in after nine or ten requests of the client that   *)
(* ended at 400 (they count, and leave nothing in the History Store), and  *)
(* after the window of ten such requests has run out.                      *)
(***************************************************************************)
WindowOf(count, created) ==
  [k \in IPs |-> [count |-> count, resetTime |-> created + RATE_LIMIT_WINDOW]]

AdmitStarts ==
  {[now |-> 0, store |-> WindowOf(RATE_LIMIT_MAX - 1, 0)],
   [now |-> 0, store |-> WindowOf(RATE_LIMIT_MAX, 0)],
   [now |-> RATE_LIMIT_WINDOW + 1, store |-> WindowOf(RATE_LIMIT_MAX, 0)]}

InitAdmit ==
  /\ \E w \in AdmitStarts : now = w.now /\ rateLimitStore = w.store
  /\ stalls = 0
  /\ usernameChecks = << >>
  /\ currentCheckId = 1
  /\ active = {"r1"}
  /\ req = [r \in Reqs |-> IdleReq]
  /\ rl = NoCalls
  /\ val = NoVal
  /\ hist = << >>

SpecAdmit == InitAdmit /\ [][Next]_vars

(***************************************************************************)
(* The validators on their own: one string, handed to                      *)
(* usernameValidationSchema as the single-check and bulk-check routes do   *)
(* (routes.ts 172, 223), to validateRobloxUsername and to validateUsername. *)
(***************************************************************************)
ValChars == {"a", "Z", "7", "_", "-", " ", "\n"}

RECURSIVE Rep(_, _)
Rep(c, n) == IF n = 0 THEN << >> ELSE << c >> \o Rep(c, n - 1)

\* the strings named by the specification, and strings around 20 characters
ValSamples ==
  {<< "_", "a", "b", "c" >>, << "a", "b", "c", "_" >>,
   << "a", "b", "_", "_", "c" >>, U_abc, << " " >> \o U_abc \o << " " >>,
   << " ", " " >> \o U_good \o << "\t" >>}
    \cup {Rep("a", n) : n \in (MAX_LEN - 1)..(MAX_LEN + 1)}
    \cup {<< " " >> \o Rep("a", MAX_LEN) \o << " " >>,
          Rep("a", MAX_LEN - 1) \o << "_" >>,
          Rep("a", MAX_LEN - 1) \o << "\n" >>}

ValInputs == SeqsUpTo(ValChars, MaxStrLen) \cup ValSamples

InitValidate ==
  /\ now = 0
  /\ stalls = 0
  /\ rateLimitStore = << >>
  /\ usernameChecks = << >>
  /\ currentCheckId = 1
  /\ active = {"r1"}
  /\ req = [r \in Reqs |-> IdleReq]
  /\ rl = NoCalls
  /\ \E s \in ValInputs : val = [NoVal EXCEPT !.raw = s]
  /\ hist = << >>

Answer(b) == IF b THEN "accept" ELSE "reject"

\* usernameValidationSchema.parse({username}) on the raw string
SchemaParse ==
  /\ val.schema = "none"
  /\ val' = [val EXCEPT !.schema = Answer(SchemaAccepts(val.raw))]
  /\ UNCHANGED << now, stalls, rateLimitStore, usernameChecks, currentCheckId,
                  active, req, rl, hist >>

\* validateRobloxUsername(username).isValid
ClientValidate ==
  /\ val.client = "none"
  /\ val' = [val EXCEPT !.client = Answer(validateRobloxUsername(val.raw).isValid)]
  /\ UNCHANGED << now, stalls, rateLimitStore, usernameChecks, currentCheckId,
                  active, req, rl, hist >>

\* validateUsername(username).isValid
ClientValidateTrimmed ==
  /\ val.wrapped = "none"
  /\ val' = [val EXCEPT !.wrapped = Answer(validateUsername(val.raw).isValid)]
  /\ UNCHANGED << now, stalls, rateLimitStore, usernameChecks, currentCheckId,
                  active, req, rl, hist >>

NextValidate == SchemaParse \/ ClientValidate \/ ClientValidateTrimmed

SpecValidate == InitValidate /\ [][NextValidate]_vars

(***************************************************************************)
(* The History Store under several requests: single checks that have come  *)
(* as far as their save, side by side, and the three history routes        *)
(* (routes.ts 419-464).                                                    *)
(***************************************************************************)
\* the store after n earlier checks, one per millisecond
EarlierChecks(n) ==
  [i \in 1..n |-> [id |-> i, username |-> U_abc, isAvailable |-> (i % 2 = 0),
                   checkedAt |-> i]]

\* a fresh store, or one that n earlier checks of other clients have filled
InitStore ==
  /\ \E n \in {0, MaxHistory} :
       /\ usernameChecks = EarlierChecks(n)
       /\ currentCheckId = n + 1
       /\ now = n
  /\ stalls = 0
  /\ rateLimitStore = << >>
  /\ active = Reqs
  /\ req = [r \in Reqs |-> IdleReq]
  /\ rl = NoCalls
  /\ val = NoVal
  /\ hist = << >>

FreeSlot(r) == r \in active /\ req[r].pc \in {"idle", "done"}

\* requests received and clock ticks so far
StoreOps == rl.calls + rl.ticks + Len(hist)

\* POST /api/username/check from its arrival to the call of
\* storage.saveUsernameCheck, for a primary endpoint that answers {code}
\* at once (routes.ts 162-180)
CheckReachesSave(r, ip, username, code) ==
  /\ FreeSlot(r)
  /\ StoreOps < MaxStoreOps
  /\ checkRateLimit(rateLimitStore, ip, now)
  /\ SchemaAccepts(username)
  /\ rateLimitStore' = RateLimitStoreAfter(rateLimitStore, ip, now)
  /\ rl' = [rl EXCEPT !.calls = @ + 1]
  /\ LET q == [IdleReq EXCEPT !.route = "check", !.ip = ip,
                              !.input = [wellTyped |-> TRUE, username |-> username],
                              !.seen = EntryOf(rateLimitStore, ip, now),
                              !.username = username]
         q1 == AfterPrimaryFetch(StartPrimary(q, username, now),
                                 Response(200, JsStr("application/json")), now)
         q2 == AfterPrimaryJson(q1, Body(JsObj(JsNum(code), JsUndefined)), now)
     IN req' = [req EXCEPT ![r] = Resume(q2, now)]
  /\ UNCHANGED << now, stalls, usernameChecks, currentCheckId, active, val, hist >>

\* the clock moves on by a millisecond while requests are under way
ClockTicks ==
  /\ StoreOps < MaxStoreOps
  /\ now' = now + 1
  /\ rl' = [rl EXCEPT !.ticks = @ + 1]
  /\ UNCHANGED << stalls, rateLimitStore, usernameChecks, currentCheckId, active,
                  req, val, hist >>

\* one served history route: what was asked, the id the store would hand
\* out next at that moment, and the answer
Exchange(route, query, response) ==
  [route |-> route, query |-> query, nextId |-> currentCheckId,
   response |-> response]

NoQuery == [kind |-> "absent", n |-> 0]

\* GET /api/username/recent (routes.ts 419-428)
RecentRequest(query) ==
  /\ StoreOps < MaxStoreOps
  /\ hist' = Append(hist,
       Exchange("recent", query,
                [status |-> 200,
                 checks |-> getRecentChecks(usernameChecks, LimitOf(query))]))
  /\ UNCHANGED << now, stalls, rateLimitStore, usernameChecks, currentCheckId,
                  active, req, rl, val >>

\* GET /api/username/stats (routes.ts 431-439)
StatsRequest ==
  /\ StoreOps < MaxStoreOps
  /\ hist' = Append(hist,
       Exchange("stats", NoQuery,
                [status |-> 200, stats |-> getUsageStats(usernameChecks)]))
  /\ UNCHANGED << now, stalls, rateLimitStore, usernameChecks, currentCheckId,
                  active, req, rl, val >>

\* DELETE /api/username/recent (routes.ts 450-464)
ClearRequest ==
  /\ StoreOps < MaxStoreOps
  /\ usernameChecks' = clearUsernameChecks(usernameChecks)
  /\ hist' = Append(hist,
       Exchange("clear", NoQuery,
                [status |-> 200, message |-> "History cleared successfully"]))
  /\ UNCHANGED << now, stalls, rateLimitStore, currentCheckId, active, req, rl, val >>

NextStore ==
  \/ \E r \in Reqs, ip \in IPs : CheckReachesSave(r, ip, U_abc, 0)
  \/ \E r \in Reqs : SaveFulfils(r)
  \/ ClockTicks
  \/ \E query \in LimitQueries : RecentRequest(query)
  \/ StatsRequest
  \/ ClearRequest

SpecStore == InitStore /\ [][NextStore]_vars

(***************************************************************************)
(* The two batch routes side by side: POST /api/username/bulk-check        *)
(* (routes.ts 205-306) receives the list of lines of a file while          *)
(* POST /api/username/bulk-check-file (routes.ts 309-416) receives the     *)
(* file, and both invocations meet the same answers of the endpoints and   *)
(* of the store at the same times.                                         *)
(***************************************************************************)
BulkSide == "r1"
FileSide == "r2"

\* a file of 10,001 lines: 10,000 times a name that is too short, and a
\* valid name on the line behind the cap
LongFile ==
  [present |-> TRUE, originalname |-> "long.txt",
   content |->
     [i \in 1..(3 * FILE_LINE_CAP) |->
        IF i % 3 = 1 THEN "a" ELSE IF i % 3 = 2 THEN "b" ELSE "\n"]
       \o U_good]

UploadedFiles == {f \in Files : f.present} \cup {LongFile}

\* the non-empty trimmed lines of a file, and the first 10,000 of them
LinesOf(content) == FilterNonEmpty(MapTrim(SplitLines(content, << >>)))

FirstLines(content) ==
  LET ls == LinesOf(content)
  IN  [i \in 1..(IF Len(ls) < FILE_LINE_CAP THEN Len(ls) ELSE FILE_LINE_CAP) |-> ls[i]]

InitFile ==
  /\ now = 0
  /\ stalls = 0
  /\ rateLimitStore = << >>
  /\ usernameChecks = << >>
  /\ currentCheckId = 1
  /\ active = Reqs
  /\ req = [r \in Reqs |-> IdleReq]
  /\ rl = NoCalls
  /\ val = NoVal
  /\ hist = << >>

Lockstep(pc) == \A r \in Reqs : req[r].pc = pc

\* the list arrives at the bulk route and the file at the file route
BothArrive(ip, file) ==
  /\ Lockstep("idle")
  /\ LET body == [wellTyped |-> TRUE, usernames |-> FirstLines(file.content)]
         store == RateLimitStoreAfter(rateLimitStore, ip, now)
     IN  /\ req' = [req EXCEPT
                      ![BulkSide] = BulkCheckReceived(req[BulkSide], ip, body,
                                                      rateLimitStore, now),
                      ![FileSide] = BulkCheckFileReceived(req[FileSide], ip, file,
                                                          store, now)]
         /\ rateLimitStore' = RateLimitStoreAfter(store, ip, now)
  /\ UNCHANGED << now, stalls, usernameChecks, currentCheckId, active, rl, val, hist >>

\* await fetch(primary) settles alike in both invocations
BothPrimaryFetchSettle(o) ==
  /\ Lockstep("primary_fetch")
  /\ \A r \in Reqs : MayHappen(req[r], o)
  /\ req' = [r \in Reqs |-> Resume(AfterPrimaryFetch(req[r], o, now), now)]
  /\ UNCHANGED << now, stalls, rateLimitStore, usernameChecks, currentCheckId, active, rl, val, hist >>

BothPrimaryJsonSettle(o) ==
  /\ Lockstep("primary_json")
  /\ req' = [r \in Reqs |-> Resume(AfterPrimaryJson(req[r], o, now), now)]
  /\ UNCHANGED << now, stalls, rateLimitStore, usernameChecks, currentCheckId, active, rl, val, hist >>

BothFallbackFetchSettle(o) ==
  /\ Lockstep("fallback_fetch")
  /\ \A r \in Reqs : MayHappen(req[r], o)
  /\ req' = [r \in Reqs |-> Resume(AfterFallbackFetch(req[r], o, now), now)]
  /\ UNCHANGED << now, stalls, rateLimitStore, usernameChecks, currentCheckId, active, rl, val, hist >>

BothFallbackJsonSettle(o) ==
  /\ Lockstep("fallback_json")
  /\ req' = [r \in Reqs |-> Resume(AfterFallbackJson(req[r], o, now), now)]
  /\ UNCHANGED << now, stalls, rateLimitStore, usernameChecks, currentCheckId, active, rl, val, hist >>

\* await storage.saveUsernameCheck fulfils in both invocations
BothSaveFulfil ==
  /\ Lockstep("save")
  /\ LET first == NewCheck([username |-> req[BulkSide].username,
                            isAvailable |-> req[BulkSide].isAvailable],
                           currentCheckId, now)
         second == NewCheck([username |-> req[FileSide].username,
                             isAvailable |-> req[FileSide].isAvailable],
                            NextCheckId(currentCheckId), now)
     IN  /\ usernameChecks' = MapSet(MapSet(usernameChecks, first), second)
         /\ currentCheckId' = NextCheckId(NextCheckId(currentCheckId))
         /\ req' = [req EXCEPT
                      ![BulkSide] = LoopAfterSave(req[BulkSide], first, now),
                      ![FileSide] = LoopAfterSave(req[FileSide], second, now)]
  /\ UNCHANGED << now, stalls, rateLimitStore, active, rl, val, hist >>

\* await storage.saveUsernameCheck rejects in both invocations
BothSaveReject ==
  /\ Lockstep("save")
  /\ req' = [r \in Reqs |-> LoopCatch(req[r], "store failure", now)]
  /\ UNCHANGED << now, stalls, rateLimitStore, usernameChecks, currentCheckId, active, rl, val, hist >>

\* the 200 ms timers of both loops fire
BothDelayEnd ==
  /\ Lockstep("delay")
  /\ \A r \in Reqs : now >= req[r].wakeAt
  /\ req' = [r \in Reqs |-> NextIteration([req[r] EXCEPT !.waits = @ + 1], now)]
  /\ UNCHANGED << now, stalls, rateLimitStore, usernameChecks, currentCheckId, active, rl, val, hist >>

NextFile ==
  \/ \E ip \in IPs, file \in UploadedFiles : BothArrive(ip, file)
  \/ \E o \in PrimaryFetchOutcomes : BothPrimaryFetchSettle(o)
  \/ \E o \in PrimaryJsonOutcomes : BothPrimaryJsonSettle(o)
  \/ \E o \in FallbackFetchOutcomes : BothFallbackFetchSettle(o)
  \/ \E o \in FallbackJsonOutcomes : BothFallbackJsonSettle(o)
  \/ BothSaveFulfil
  \/ BothSaveReject
  \/ BothDelayEnd
  \/ DelayElapses
  \/ EndpointStalls

SpecFile == InitFile /\ [][NextFile]_vars

(***************************************************************************)
(* One batch with the guarantees the runtime gives: a timer that is due    *)
(* fires, an aborted fetch rejects, the store settles. The endpoints       *)
(* guarantee nothing: they may answer, or stay silent for ever.            *)
(***************************************************************************)
LiveBodies == {b \in BulkBodies : Len(b.usernames) <= 2}

\* the 10 s abort timer of a pending fetch becomes due
\* (setTimeout(() => controller.abort(), 10000), routes.ts 54, 120)
AbortTimerDue ==
  /\ \E t \in Deadlines : t > now /\ now' = t
  /\ UNCHANGED << stalls, rateLimitStore, usernameChecks, currentCheckId, active, req, rl, val, hist >>

\* controller.abort() rejects the pending fetch
PrimaryFetchAborts == \E r \in Reqs : PrimaryFetchSettles(r, Aborted)
FallbackFetchAborts == \E r \in Reqs : FallbackFetchSettles(r, Aborted)

\* await storage.saveUsernameCheck settles
SaveSettles == \E r \in Reqs : SaveFulfils(r) \/ SaveRejects(r)

\* the 200 ms timer fires
DelayFires == \E r \in Reqs : DelayEnds(r)

NextLive ==
  \/ \E r \in Reqs, ip \in IPs, body \in LiveBodies : BulkCheckRequest(r, ip, body)
  \/ \E r \in Reqs, o \in PrimaryFetchOutcomes : PrimaryFetchSettles(r, o)
  \/ \E r \in Reqs, o \in PrimaryJsonOutcomes : PrimaryJsonSettles(r, o)
  \/ \E r \in Reqs, o \in FallbackFetchOutcomes : FallbackFetchSettles(r, o)
  \/ \E r \in Reqs, o \in FallbackJsonOutcomes : FallbackJsonSettles(r, o)
  \/ SaveSettles
  \/ DelayFires
  \/ DelayElapses
  \/ AbortTimerDue

Fairness ==
  /\ WF_vars(AbortTimerDue)
  /\ WF_vars(PrimaryFetchAborts)
  /\ WF_vars(FallbackFetchAborts)
  /\ WF_vars(SaveSettles)
  /\ WF_vars(DelayElapses)
  /\ WF_vars(DelayFires)

SpecLive == Init /\ [][NextLive]_vars /\ Fairness

(***************************************************************************)
(* Two bulk requests under way together: their handlers interleave at      *)
(* every await (fetch, response.json(), storage.saveUsernameCheck, the     *)
(* 200 ms timer) and share the History Store and the clock.                *)
(***************************************************************************)
ConcBodies ==
  {[wellTyped |-> TRUE, usernames |-> << U_abc, U_abc >>],
   [wellTyped |-> TRUE, usernames |-> << U_bad, U_good >>]}

ConcPrimaryFetchOutcomes == {Rejected, Response(200, JsStr("application/json"))}
ConcPrimaryJsonOutcomes ==
  {Body(JsObj(JsNum(0), JsUndefined)), Body(JsObj(JsNum(1), JsUndefined))}
ConcFallbackFetchOutcomes == {Rejected, Response(200, JsStr("application/json"))}
ConcFallbackJsonOutcomes == {Body([type |-> "object", data |-> JsArr(1)])}

NextConc ==
  \/ \E r \in Reqs, ip \in IPs, body \in ConcBodies : BulkCheckRequest(r, ip, body)
  \/ \E r \in Reqs, o \in ConcPrimaryFetchOutcomes : PrimaryFetchSettles(r, o)
  \/ \E r \in Reqs, o \in ConcPrimaryJsonOutcomes : PrimaryJsonSettles(r, o)
  \/ \E r \in Reqs, o \in ConcFallbackFetchOutcomes : FallbackFetchSettles(r, o)
  \/ \E r \in Reqs, o \in ConcFallbackJsonOutcomes : FallbackJsonSettles(r, o)
  \/ \E r \in Reqs : SaveFulfils(r)
  \/ \E r \in Reqs : SaveRejects(r)
  \/ \E r \in Reqs : DelayEnds(r)
  \/ DelayElapses

SpecConc == InitFile /\ [][NextConc]_vars

(***************************************************************************)
(* One client sends request after request: each handler invocation ends    *)
(* before the next request arrives, and the windows of checkRateLimit      *)
(* live on between them. MemStorage is the store (its append never         *)
(* rejects).                                                               *)
(***************************************************************************)
QuotaCheckBodies ==
  {[wellTyped |-> FALSE, username |-> << >>],
   [wellTyped |-> TRUE, username |-> U_ab],
   [wellTyped |-> TRUE, username |-> U_abc]}

QuotaBulkBodies ==
  {[wellTyped |-> FALSE, usernames |-> << >>],
   [wellTyped |-> TRUE, usernames |-> << >>],
   [wellTyped |-> TRUE, usernames |-> << U_abc >>]}

QuotaFiles ==
  {NoFile,
   [present |-> TRUE, originalname |-> "names.txt", content |-> << " ", "\n" >>],
   [present |-> TRUE, originalname |-> "names.txt", content |-> U_abc]}

\* the response has been sent and the handler invocation is over
SlotFreed(r) ==
  /\ r \in active /\ req[r].pc = "done"
  /\ req' = [req EXCEPT ![r] = IdleReq]
  /\ UNCHANGED << now, stalls, rateLimitStore, usernameChecks, currentCheckId, active, rl, val, hist >>

NextQuota ==
  \/ \E r \in Reqs, ip \in IPs, body \in QuotaCheckBodies : CheckRequest(r, ip, body)
  \/ \E r \in Reqs, ip \in IPs, body \in QuotaBulkBodies : BulkCheckRequest(r, ip, body)
  \/ \E r \in Reqs, ip \in IPs, file \in QuotaFiles : BulkCheckFileRequest(r, ip, file)
  \/ \E r \in Reqs, o \in ConcPrimaryFetchOutcomes : PrimaryFetchSettles(r, o)
  \/ \E r \in Reqs, o \in ConcPrimaryJsonOutcomes : PrimaryJsonSettles(r, o)
  \/ \E r \in Reqs, o \in ConcFallbackFetchOutcomes : FallbackFetchSettles(r, o)
  \/ \E r \in Reqs, o \in ConcFallbackJsonOutcomes : FallbackJsonSettles(r, o)
  \/ \E r \in Reqs : SaveFulfils(r)
  \/ \E r \in Reqs : SlotFreed(r)

SpecQuota == Init /\ [][NextQuota]_vars

(***************************************************************************)
(* Properties.                                                             *)
(***************************************************************************)
BulkRoutes == {"bulk", "file"}

IsValidName(u) == SchemaAccepts(u)
IsInvalidName(u) == ~SchemaAccepts(u)

\* the usernames a bulk request carries: the array of the JSON body, or the
\* non-empty trimmed lines of the uploaded file
InputNames(q) ==
  IF q.route = "bulk" THEN q.input.usernames ELSE ParseFile(q.input.content)

\* the request carries a list of usernames at all
CarriesNames(q) ==
  IF q.route = "bulk" THEN q.input.wellTyped ELSE q.input.present

ValidInput(q) == SelectSeq(InputNames(q), IsValidName)
InvalidInput(q) == SelectSeq(InputNames(q), IsInvalidName)

\* the response is results + summary with the counts of the input
AccountsForInput(q) ==
  /\ q.response.status = 200
  /\ q.response.summary.total = Len(InputNames(q))
  /\ q.response.summary.errors = Len(InvalidInput(q))
  /\ q.response.summary.processed = Len(InputNames(q)) - Len(InvalidInput(q))
  /\ Len(q.response.results) = Len(InputNames(q))

Admitted(q) ==
  q.pc = "done" /\ q.route \in BulkRoutes /\ q.response.status # 429

\* C1 as stated: every bulk request that passes the rate limiter and carries
\* N usernames, K of them invalid, is answered with summary.total = N,
\* summary.errors = K, summary.processed = N - K and N result entries.
C1_EveryAdmittedBatchIsCounted ==
  \A r \in active :
    (Admitted(req[r]) /\ CarriesNames(req[r])) => AccountsForInput(req[r])

\* C1, amended: every bulk request that passes the rate limiter and carries
\* N >= 1 usernames, K of them invalid, is answered with summary.total = N,
\* summary.errors = K, summary.processed = N - K and N result entries,
\* whatever the resolver and the store did for the single usernames.
C1_NonEmptyBatchIsCounted ==
  \A r \in active :
    (Admitted(req[r]) /\ CarriesNames(req[r]) /\ Len(InputNames(req[r])) >= 1)
      => AccountsForInput(req[r])

IsStoreFailure(e) == e.isAvailable.type = "null" /\ e.error = "store failure"
IsResolved(e) == e.isAvailable.type = "boolean"

\* a finished batch of three with invalid names, a store failure and a
\* persisted outcome
C1_Witness ==
  \E r \in active :
    /\ Admitted(req[r]) /\ req[r].response.status = 200
    /\ Len(InputNames(req[r])) = 3
    /\ Len(InvalidInput(req[r])) = 1
    /\ \E i, j \in 1..Len(req[r].response.results) :
         /\ IsStoreFailure(req[r].response.results[i])
         /\ IsResolved(req[r].response.results[j])

\* the batch has passed the rate limiter and input parsing
PastParsing(q) == q.route \in BulkRoutes /\ Len(q.usernames) >= 1

\* C2: once a bulk request has passed the rate limiter and input parsing, no
\* failure on one username aborts it: it ends with results + summary, never
\* with a request-level error, and every validated username has been
\* resolved by then.
C2_BatchNeverAborts ==
  \A r \in active :
    (PastParsing(req[r]) /\ req[r].pc = "done") =>
      /\ req[r].response.status = 200
      /\ Len(req[r].callLog) = Len(ValidInput(req[r]))
      /\ \A i \in 1..Len(req[r].callLog) :
           req[r].callLog[i].username = ValidInput(req[r])[i]

\* a finished batch in which the store failed for one username and a later
\* username was still resolved and persisted
C2_Witness ==
  \E r \in active :
    /\ PastParsing(req[r]) /\ req[r].pc = "done"
    /\ req[r].response.status = 200
    /\ \E i, j \in 1..Len(req[r].response.results) :
         /\ i < j
         /\ IsStoreFailure(req[r].response.results[i])
         /\ IsResolved(req[r].response.results[j])

\* usernames whose resolve-and-persist step has completed
Completed(q) == Len(q.results) - Len(InvalidInput(q))

\* C3: within a batch the resolver is called at most once per validated
\* username, in input order, a call starts only when the step of the previous
\* username has completed, and at most one call is outstanding.
C3_SequentialResolverCalls ==
  \A r \in active :
    PastParsing(req[r]) =>
      /\ req[r].outstanding <= 1
      /\ Len(req[r].callLog) <= Len(ValidInput(req[r]))
      /\ \A i \in 1..Len(req[r].callLog) :
           req[r].callLog[i].username = ValidInput(req[r])[i]
      /\ Len(req[r].callLog) <= Completed(req[r]) + 1
      /\ req[r].outstanding = 1 => Len(req[r].callLog) = Completed(req[r]) + 1

\* the second resolver call of a batch is in flight, the first username done
C3_Witness ==
  \E r \in active :
    /\ PastParsing(req[r])
    /\ Len(req[r].callLog) = 2
    /\ req[r].outstanding = 1
    /\ Completed(req[r]) = 1

\* C4 as stated: at least 200 ms lie between two consecutive resolver calls
\* of a batch, however the earlier username ended, and there is one wait
\* between calls and none after the last.
C4_DelayBetweenCalls ==
  \A r \in active :
    PastParsing(req[r]) =>
      /\ \A i \in 2..Len(req[r].callLog) :
           req[r].callLog[i].at - req[r].callLog[i - 1].at >= LOOP_DELAY
      /\ (req[r].pc = "done" /\ Len(req[r].callLog) >= 1)
           => req[r].waits = Len(req[r].callLog) - 1

RECURSIVE NamesOf(_)
NamesOf(es) ==
  IF es = << >> THEN << >> ELSE << Head(es).username >> \o NamesOf(Tail(es))

\* C5: the results of a bulk response are the invalid usernames in their
\* input order, each as an invalid-format entry, followed by the validated
\* usernames in their input order.
C5_TwoPhaseOrder ==
  \A r \in active :
    (PastParsing(req[r]) /\ req[r].pc = "done") =>
      LET rs == req[r].response.results
          k == Len(InvalidInput(req[r]))
      IN /\ NamesOf(rs) = InvalidInput(req[r]) \o ValidInput(req[r])
         /\ \A i \in 1..Len(rs) :
              i <= k => /\ rs[i].isAvailable.type = "null"
                        /\ rs[i].error = "Invalid username format"

\* a response whose first two entries are the invalid names that came second
\* and third in the input, before the valid name that came first
C5_Witness ==
  \E r \in active :
    /\ PastParsing(req[r]) /\ req[r].pc = "done"
    /\ InputNames(req[r]) = << U_good, U_ab, U_bad >>
    /\ NamesOf(req[r].response.results) = << U_ab, U_bad, U_good >>

\* a resolver call of the request has returned and its result is at hand
Returned(q) == q.pc = "save" /\ q.res.result.kind = "return"

VerdictStatuses ==
  {"available", "taken", "censored", "too_short", "too_long",
   "invalid_characters", "unknown", "error"}

\* C6: the resolver never raises: whatever the primary and the fallback
\* endpoint do, a resolver call ends by returning a verdict, so no caller
\* ever sees an error that comes from the resolver.
C6_ResolverNeverRaises ==
  \A r \in active :
    LET q == req[r] IN
    /\ ~q.raised
    /\ q.pc = "save" =>
         /\ q.res.result.kind = "return"
         /\ q.res.result.verdict.isAvailable \in BOOLEAN
         /\ q.res.result.verdict.status \in VerdictStatuses
    /\ (q.pc = "done" /\ q.route = "check" /\ q.response.status = 500)
         => q.response.message = "store failure"
    /\ \A i \in 1..Len(q.results) :
         q.results[i].isAvailable.type = "null"
           => q.results[i].error \in {"Invalid username format", "store failure"}

\* both endpoints answer 200 with the JSON body null, so that reading a
\* property throws in both functions; the call still returns a verdict
C6_Witness ==
  \E r \in active :
    /\ Returned(req[r])
    /\ req[r].res.pbody = Body(JsNull)
    /\ req[r].res.fbody = Body(JsNull)
    /\ req[r].res.result.verdict.status = "error"

\* the primary endpoint answered 2xx, JSON, with a body that has a code field
Classified(q) ==
  /\ Returned(q)
  /\ q.res.pbody.kind = "body"
  /\ q.res.pbody.data.type = "object"
  /\ q.res.pbody.data.code.type # "undefined"

CodeIs(data, n) == data.code.type = "number" /\ data.code.num = n

\* the table of section 4.3
TableStatus(data) ==
  IF CodeIs(data, 0) THEN "available"
  ELSE IF CodeIs(data, 1) THEN "taken"
  ELSE IF CodeIs(data, 2) THEN "censored"
  ELSE IF CodeIs(data, 10) THEN "too_short"
  ELSE IF CodeIs(data, 11) THEN "too_long"
  ELSE IF CodeIs(data, 12) THEN "invalid_characters"
  ELSE "unknown"

\* C7: a 2xx JSON primary answer with a code field is classified by the code
\* alone (0 available, 1 taken, 2 censored, 10 too_short, 11 too_long,
\* 12 invalid_characters, anything else unknown), only code 0 is available,
\* and the fallback endpoint is not called.
C7_CodeDecidesVerdict ==
  \A r \in active :
    Classified(req[r]) =>
      LET data == req[r].res.pbody.data
          v == req[r].res.result.verdict
      IN /\ v.status = TableStatus(data)
         /\ v.isAvailable = CodeIs(data, 0)
         /\ req[r].res.calls = << "primary" >>

\* the body {code: "0"}: the string is no code 0, the verdict is unknown
C7_Witness ==
  \E r \in active :
    /\ Classified(req[r])
    /\ req[r].res.pbody.data.code = JsStr("0")
    /\ req[r].res.result.verdict.status = "unknown"

HasMessage(data) == data.message.type # "undefined"
NonEmptyMessage(data) == data.message.type = "string" /\ data.message.val # ""

\* C8 as stated: whenever the classified primary body contains a message,
\* the verdict carries exactly that message, for every code.
C8_MessageAlwaysCarried ==
  \A r \in active :
    (Classified(req[r]) /\ HasMessage(req[r].res.pbody.data))
      => req[r].res.result.verdict.message = req[r].res.pbody.data.message

\* C8, amended: for every code other than 0 a non-empty message of the
\* classified body is carried into the verdict unchanged (code 1 carries an
\* empty message too); the verdict of code 0 carries no message.
C8_MessageCarriedUnlessAvailable ==
  \A r \in active :
    Classified(req[r]) =>
      LET data == req[r].res.pbody.data
          v == req[r].res.result.verdict
      IN /\ (~CodeIs(data, 0) /\ NonEmptyMessage(data)) => v.message = data.message
         /\ CodeIs(data, 1) => v.message = data.message
         /\ CodeIs(data, 0) => v.message = JsUndefined

\* {code: 2, message: "bad"} gives a censored verdict with message "bad"
C8_Witness ==
  \E r \in active :
    /\ Classified(req[r])
    /\ req[r].res.pbody.data = JsObj(JsNum(2), JsStr("bad"))
    /\ req[r].res.result.verdict =
         [isAvailable |-> FALSE, status |-> "censored", message |-> JsStr("bad")]

\* what the primary attempt observed counts as a failure
PrimaryFailed(res) ==
  \/ res.pfetch.kind \in {"reject", "abort"}
  \/ /\ res.pfetch.kind = "response"
     /\ \/ res.pfetch.status < 200
        \/ res.pfetch.status > 299
        \/ res.pfetch.contentType.type # "string"
        \/ res.pfetch.contentType.val \notin JsonContentTypes
  \/ res.pbody.kind = "reject"
  \/ /\ res.pbody.kind = "body"
     /\ \/ res.pbody.data.type # "object"
        \/ res.pbody.data.code.type = "undefined"

InResolver(q) ==
  q.pc \in {"primary_fetch", "primary_json", "fallback_fetch", "fallback_json", "save"}

\* C9: in one resolve call the primary endpoint is called exactly once and
\* first, the fallback endpoint at most once, and only after the primary
\* attempt has failed.
C9_FallbackOnlyAfterPrimaryFailure ==
  \A r \in active :
    LET c == req[r].res.calls IN
    /\ InResolver(req[r]) => (Len(c) >= 1 /\ c[1] = "primary")
    /\ Len(c) <= 2
    /\ Len(c) = 2 => (c[2] = "fallback" /\ PrimaryFailed(req[r].res))

\* the primary fetch ran into its 10 s timeout and the fallback was called
C9_Witness ==
  \E r \in active :
    /\ Returned(req[r])
    /\ req[r].res.pfetch = Aborted
    /\ req[r].res.calls = << "primary", "fallback" >>
    /\ req[r].res.ffetch.kind = "response"

\* the fallback endpoint answered 2xx with a body that has a data array
FallbackSucceeded(q) ==
  /\ Returned(q)
  /\ q.res.fbody.kind = "body"
  /\ q.res.fbody.data.type = "object"
  /\ q.res.fbody.data.data.type = "array"

\* C10: when the primary attempt fails and the fallback call succeeds, an
\* empty result set gives (available, true) and a non-empty one
\* (taken, false).
C10_FallbackResultSetDecides ==
  \A r \in active :
    FallbackSucceeded(req[r]) =>
      LET n == req[r].res.fbody.data.data.len
          v == req[r].res.result.verdict
      IN /\ n = 0 => (v.isAvailable /\ v.status = "available")
         /\ n > 0 => (~v.isAvailable /\ v.status = "taken")

\* primary HTTP 500, fallback {data: []}: available
C10_Witness ==
  \E r \in active :
    /\ FallbackSucceeded(req[r])
    /\ req[r].res.pfetch.kind = "response"
    /\ req[r].res.pfetch.status = 500
    /\ req[r].res.fbody.data.data = JsArr(0)
    /\ req[r].res.result.verdict.isAvailable
    /\ req[r].res.result.verdict.status = "available"

\* what the fallback attempt observed counts as a failure: a network error,
\* the 10 s timeout, a non-2xx answer or a body that does not parse
FallbackFailed(res) ==
  \/ res.ffetch.kind \in {"reject", "abort"}
  \/ /\ res.ffetch.kind = "response"
     /\ \/ res.ffetch.status < 200
        \/ res.ffetch.status > 299
  \/ res.fbody.kind = "reject"

\* C11: when the primary attempt fails and the fallback attempt fails as
\* well, the resolver returns the verdict (error, false) with a message, and
\* never an available verdict.
C11_BothFailGivesError ==
  \A r \in active :
    (req[r].pc = "save" /\ PrimaryFailed(req[r].res) /\ FallbackFailed(req[r].res)) =>
      LET v == req[r].res.result.verdict IN
      /\ req[r].res.result.kind = "return"
      /\ v.status = "error"
      /\ v.isAvailable = FALSE
      /\ v.message.type = "string"

\* the primary endpoint answers HTML, the fallback fetch times out
C11_Witness ==
  \E r \in active :
    /\ Returned(req[r])
    /\ req[r].res.pfetch = Response(200, JsStr("text/html"))
    /\ req[r].res.ffetch = Aborted
    /\ req[r].res.result.verdict.status = "error"
    /\ ~req[r].res.result.verdict.isAvailable

\* C12: within one window of a client key checkRateLimit returns true for
\* exactly the first 10 calls and false for every further call, and the
\* stored count never exceeds 10.
C12_TenCallsPerWindow ==
  \A k \in RLKeys :
    /\ \A i \in 1..Len(rl.results[k]) : rl.results[k][i] = (i <= 10)
    /\ k \in DOMAIN rateLimitStore =>
         /\ rateLimitStore[k].count <= 10
         /\ rateLimitStore[k].count =
              (IF Len(rl.results[k]) <= 10 THEN Len(rl.results[k]) ELSE 10)

\* twelve calls of one client in one window: the last two are refused
C12_Witness ==
  /\ Len(rl.results["ip1"]) = 12
  /\ rl.results["ip1"][10]
  /\ ~rl.results["ip1"][11]
  /\ ~rl.results["ip1"][12]
  /\ rateLimitStore["ip1"].count = 10

\* the request found the client's window open with ten requests counted
FoundExhausted(q) ==
  /\ q.route # "none"
  /\ q.seen.present
  /\ q.seen.count >= 10
  /\ q.seen.at <= q.seen.resetTime

IsRateLimited(q) == q.pc = "done" /\ q.response.status = 429

\* C13: the eleventh request of a window is answered 429 on each of the
\* three check routes, before any resolver call is made and before anything
\* is persisted; a bulk request is rejected as a whole, with no results.
C13_RejectedBeforeAnyWork ==
  \A r \in active :
    /\ FoundExhausted(req[r]) => IsRateLimited(req[r])
    /\ IsRateLimited(req[r]) =>
         /\ FoundExhausted(req[r])
         /\ req[r].callLog = << >>
         /\ req[r].results = << >>
         /\ req[r].processed = 0
         /\ "results" \notin DOMAIN req[r].response
         /\ usernameChecks = << >>
         /\ currentCheckId = 1

\* a bulk request of two valid usernames arriving as the eleventh of a window
C13_Witness ==
  \E r \in active :
    /\ IsRateLimited(req[r])
    /\ req[r].route = "bulk"
    /\ req[r].input.wellTyped
    /\ req[r].input.usernames = << U_good, U_abc >>
    /\ req[r].seen.count = 10

\* C14: a call made when the client has no window, or later than the
\* window's resetTime, is admitted and sets the window to count 1 and
\* resetTime = now + 60 s, even if the previous window was exhausted; a call
\* made at or before resetTime never resets the window.
C14_WindowResetsAfterSixtySeconds ==
  rl.last.kind = "call" =>
    LET b == rl.last.before
        a == rl.last.after
    IN /\ a.present
       /\ IF ~b.present \/ b.at > b.resetTime
            THEN /\ rl.last.allowed
                 /\ a.count = 1
                 /\ a.resetTime = b.at + 60000
            ELSE /\ a.resetTime = b.resetTime
                 /\ a.count >= b.count

\* an exhausted window is replaced by the first call after its resetTime
C14_Witness ==
  /\ rl.last.kind = "call"
  /\ rl.last.before.present
  /\ rl.last.before.count = 10
  /\ rl.last.before.at = rl.last.before.resetTime + 1
  /\ rl.last.allowed
  /\ rl.last.after.count = 1
  /\ rl.last.after.resetTime = rl.last.before.at + 60000

\* C15: for every client and every interval of 60 seconds, no more than 10
\* requests of the client arriving in the interval are admitted: of any
\* eleven admitted calls the first and the last are at least 60 s apart.
C15_TenPerMinute ==
  \A k \in RLKeys :
    \A i \in 1..Len(rl.admittedAt[k]) :
      i + 10 <= Len(rl.admittedAt[k]) =>
        rl.admittedAt[k][i + 10] - rl.admittedAt[k][i] >= 60000

\* C16: the rate-limit check is applied exactly once per inbound request: an
\* admitted single, bulk or file-upload check raises the client's window
\* count by exactly 1 (or opens a window with count 1), however many
\* usernames the batch contains and however far the handler has got.
C16_CountedOncePerRequest ==
  \A r \in active :
    (req[r].route # "none" /\ ~IsRateLimited(req[r])) =>
      LET s == req[r].seen IN
      /\ req[r].ip \in DOMAIN rateLimitStore
      /\ rateLimitStore[req[r].ip].count =
           (IF s.present /\ s.at <= s.resetTime THEN s.count + 1 ELSE 1)

\* a bulk request with two resolver calls behind it has raised the count
\* from 9 to 10
C16_Witness ==
  \E r \in active :
    /\ req[r].route = "bulk"
    /\ req[r].pc = "done"
    /\ req[r].response.status = 200
    /\ Len(req[r].callLog) = 2
    /\ req[r].seen.count = 9
    /\ rateLimitStore[req[r].ip].count = 10

\* the step in which the processing loop pushes the entry of a resolved call
PushesResolved(r) ==
  /\ req[r].pc = "save"
  /\ req[r].route \in BulkRoutes
  /\ Len(req'[r].results) = Len(req[r].results) + 1
  /\ IsResolved(req'[r].results[Len(req'[r].results)])

\* C17: for every validated username the resolver resolves, the bulk result
\* entry carries the verdict's status and message in addition to username,
\* isAvailable and the persisted checkedAt timestamp.
C17_EntryCarriesStatusAndMessage ==
  [][\A r \in Reqs :
       PushesResolved(r) =>
         LET e == req'[r].results[Len(req'[r].results)]
             v == req[r].res.result.verdict
         IN /\ e.username = req[r].username
            /\ e.isAvailable = JsBool(v.isAvailable)
            /\ e.timestamp = usernameChecks'[Len(usernameChecks')].checkedAt
            /\ "status" \in DOMAIN e /\ e.status = v.status
            /\ "message" \in DOMAIN e /\ e.message = v.message]_vars

\* a result entry without the fields that name the username and the time
Mark(e) == [f \in DOMAIN e \ {"username", "timestamp"} |-> e[f]]

\* C18: in a bulk response the entry of a username whose primary and
\* fallback attempts both failed (verdict status error) can be told apart
\* from the entry of a username that is genuinely taken.
C18_FailedToldApartFromTaken ==
  \A r \in active :
    \A a, b \in req[r].origin :
      (a.verdict = "error" /\ b.verdict = "taken") =>
        Mark(req[r].results[a.at]) # Mark(req[r].results[b.at])

\* ASCII letters, digits and the underscore
AsciiWord ==
  {"a", "b", "c", "d", "e", "f", "g", "h", "i", "j", "k", "l", "m", "n", "o",
   "p", "q", "r", "s", "t", "u", "v", "w", "x", "y", "z",
   "A", "B", "C", "D", "E", "F", "G", "H", "I", "J", "K", "L", "M", "N", "O",
   "P", "Q", "R", "S", "T", "U", "V", "W", "X", "Y", "Z",
   "0", "1", "2", "3", "4", "5", "6", "7", "8", "9", "_"}

\* the rules of section 4.2 on a string as it stands
RulesHold(s) ==
  /\ 3 <= Len(s) /\ Len(s) <= 20
  /\ \A i \in 1..Len(s) : s[i] \in AsciiWord
  /\ s[1] # "_" /\ s[Len(s)] # "_"
  /\ \A i \in 1..(Len(s) - 1) : ~(s[i] = "_" /\ s[i + 1] = "_")

Answered(a) == a # "none"

\* C19: the Syntax Validator (the server's schema and the client's
\* validateRobloxUsername) accepts a username exactly when all rules hold:
\* 3 to 20 characters, only ASCII letters, digits and underscore, no leading
\* or trailing underscore, no two consecutive underscores; "_abc", "abc_",
\* "ab__c" and every string shorter than 3 or longer than 20 are invalid and
\* "abc_123" is valid.
C19_AcceptsExactlyTheRules ==
  \A a \in {val.schema, val.client} :
    Answered(a) =>
      /\ (a = "accept") <=> RulesHold(val.raw)
      /\ (Len(val.raw) < 3 \/ Len(val.raw) > 20) => a = "reject"
      /\ val.raw \in {<< "_", "a", "b", "c" >>, << "a", "b", "c", "_" >>,
                      << "a", "b", "_", "_", "c" >>} => a = "reject"
      /\ val.raw = << "a", "b", "c", "_", "1", "2", "3" >> => a = "accept"

\* a string of 20 letters passes both validators
C19_Witness ==
  /\ Len(val.raw) = 20
  /\ val.schema = "accept"
  /\ val.client = "accept"

\* white space as trim() sees it
Blank == {" ", "\t", "\r", "\n"}

\* the string without its leading and trailing white space
Stripped(s) ==
  LET keep == {i \in 1..Len(s) : s[i] \notin Blank} IN
  IF keep = {} THEN << >>
  ELSE SubSeq(s, CHOOSE i \in keep : \A j \in keep : i <= j,
                 CHOOSE i \in keep : \A j \in keep : i >= j)

\* C20 as stated: the validation of the single-check and bulk-check routes
\* trims before it applies the rules, so a raw string is valid exactly when
\* its trimmed form satisfies all rules.
C20_RoutesTrimBeforeRules ==
  Answered(val.schema) =>
    ((val.schema = "accept") <=> RulesHold(Stripped(val.raw)))

\* C20, amended: the validation of the single-check and bulk-check routes
\* does not trim: a raw string with surrounding white space is rejected even
\* if its trimmed form satisfies all rules, and a string that is empty after
\* trimming is rejected; the client's validateUsername trims first and
\* accepts a raw string exactly when its trimmed form satisfies all rules.
C20_OnlyClientTrims ==
  /\ Answered(val.schema) =>
       /\ val.raw # Stripped(val.raw) => val.schema = "reject"
       /\ Stripped(val.raw) = << >> => val.schema = "reject"
       /\ val.raw = Stripped(val.raw) =>
            ((val.schema = "accept") <=> RulesHold(val.raw))
  /\ Answered(val.wrapped) =>
       ((val.wrapped = "accept") <=> RulesHold(Stripped(val.raw)))

\* " abc_123 " is rejected by the routes' schema and accepted by
\* validateUsername
C20_Witness ==
  /\ val.raw = << " ", "a", "b", "c", "_", "1", "2", "3", " " >>
  /\ val.schema = "reject"
  /\ val.wrapped = "accept"

\* the resolver calls of a request that have settled
SettledCalls(q) == Len(q.callLog) - q.outstanding

\* record and result entry describe the same check
SameCheck(rec, e) ==
  /\ rec.username = e.username
  /\ JsBool(rec.isAvailable) = e.isAvailable
  /\ rec.checkedAt = e.timestamp

\* C21: every check that produces a verdict is persisted as exactly one
\* CheckRecord whose isAvailable is the verdict's isAvailable, verdicts with
\* status error included (persisted as false), and the timestamp returned to
\* the caller is the checkedAt of that record; a check is lost only when the
\* append itself fails.
C21_EveryVerdictPersistedOnce ==
  \A r \in active :
    LET q == req[r]
        resolved == SelectSeq(q.results, IsResolved)
        failed == SelectSeq(q.results, IsStoreFailure)
    IN /\ q.pc = "save" =>
            /\ q.res.result.kind = "return"
            /\ q.isAvailable = q.res.result.verdict.isAvailable
            /\ q.res.result.verdict.status = "error" => q.isAvailable = FALSE
       /\ q.route \in BulkRoutes =>
            /\ SettledCalls(q) =
                 Len(resolved) + Len(failed) + (IF q.pc = "save" THEN 1 ELSE 0)
            /\ Len(usernameChecks) = Len(resolved)
            /\ \A i \in 1..Len(resolved) : SameCheck(usernameChecks[i], resolved[i])
            /\ \A a \in q.origin :
                 a.verdict = "error" => q.results[a.at].isAvailable = JsBool(FALSE)
       /\ q.route = "check" =>
            /\ q.pc # "done" => usernameChecks = << >>
            /\ (q.pc = "done" /\ q.response.status = 200) =>
                 /\ Len(usernameChecks) = 1
                 /\ usernameChecks[1].username = q.username
                 /\ usernameChecks[1].isAvailable = q.response.isAvailable
                 /\ usernameChecks[1].checkedAt = q.response.timestamp
            /\ (q.pc = "done" /\ q.response.status # 200) =>
                 /\ usernameChecks = << >>
                 /\ SettledCalls(q) = 1 => q.response.message = "store failure"

\* a batch entry for a verdict with status error, persisted as not available
C21_Witness ==
  \E r \in active :
    \E a \in req[r].origin :
      /\ a.verdict = "error"
      /\ Len(usernameChecks) >= 1
      /\ SameCheck(usernameChecks[Len(usernameChecks)], req[r].results[a.at])
      /\ ~usernameChecks[Len(usernameChecks)].isAvailable

\* the step appends one record to the History Store
Appends ==
  /\ Len(usernameChecks') = Len(usernameChecks) + 1
  /\ SubSeq(usernameChecks', 1, Len(usernameChecks)) = usernameChecks

\* C22: CheckRecord ids are unique and increase in insertion order over any
\* sequence of appends, appends of several requests under way at the same
\* time included, and checkedAt is the time at which the record is persisted,
\* not the time at which its request arrived.
C22_IdsIncreaseCheckedAtIsPersistTime ==
  [][/\ Len(usernameChecks') > Len(usernameChecks) => Appends
     /\ (\E r \in active : /\ req[r].pc = "save" /\ req'[r].pc = "done"
                           /\ req'[r].response.status = 200) => Appends
     /\ Appends =>
          LET rec == usernameChecks'[Len(usernameChecks')] IN
          /\ \A i \in 1..Len(usernameChecks) : usernameChecks[i].id < rec.id
          /\ rec.checkedAt = now
          /\ \E r \in active :
               /\ req[r].pc = "save"
               /\ req'[r].pc = "done"
               /\ req'[r].response.timestamp = rec.checkedAt
               /\ req[r].callLog[1].at <= rec.checkedAt]_vars

\* two single checks under way together: the one that arrived first is
\* persisted last, later than it arrived, and behind the other in the store
C22_Witness ==
  \E r1, r2 \in active :
    /\ req[r1].pc = "done" /\ req[r1].route = "check" /\ req[r1].response.status = 200
    /\ req[r2].pc = "done" /\ req[r2].route = "check" /\ req[r2].response.status = 200
    /\ req[r1].callLog[1].at < req[r2].callLog[1].at
    /\ req[r1].response.timestamp > req[r2].response.timestamp
    /\ Len(usernameChecks) >= 2
    /\ usernameChecks[Len(usernameChecks)].checkedAt = req[r1].response.timestamp
    /\ usernameChecks[Len(usernameChecks) - 1].checkedAt = req[r2].response.timestamp
    /\ usernameChecks[Len(usernameChecks) - 1].id < usernameChecks[Len(usernameChecks)].id

\* nothing was appended between the two served requests
NothingAppendedBetween(a, b) == a.nextId = b.nextId

\* C23: after DELETE /api/username/recent has completed the History Store is
\* empty: a following GET /api/username/stats reports totalChecks = 0,
\* availableCount = 0 and takenCount = 0 and a following
\* GET /api/username/recent returns an empty list, whatever was persisted
\* before.
C23_ClearEmptiesTheStore ==
  /\ \A i \in 1..Len(hist) :
       hist[i].route = "clear" =>
         /\ hist[i].response.status = 200
         /\ hist[i].nextId = currentCheckId => usernameChecks = << >>
  /\ \A i, j \in 1..Len(hist) :
       (i < j /\ hist[i].route = "clear" /\ NothingAppendedBetween(hist[i], hist[j])) =>
         /\ hist[j].route = "stats" =>
              /\ hist[j].response.stats.totalChecks = 0
              /\ hist[j].response.stats.availableCount = 0
              /\ hist[j].response.stats.takenCount = 0
         /\ hist[j].route = "recent" => hist[j].response.checks = << >>

\* a store holding eleven records and one more is cleared, and the stats
\* route then reports zero checks
C23_Witness ==
  /\ Len(hist) = 2
  /\ hist[1].route = "clear"
  /\ hist[1].nextId > 12
  /\ hist[2].route = "stats"
  /\ hist[2].nextId = hist[1].nextId
  /\ hist[2].response.stats.totalChecks = 0
  /\ usernameChecks = << >>

\* the n most recently persisted records of the store, the newest first
NewestFirst(checks, n) ==
  LET k == IF Len(checks) < n THEN Len(checks) ELSE n
  IN  [i \in 1..k |-> checks[Len(checks) + 1 - i]]

\* the N a request for the recent checks asks for (limit = 0 left aside)
AskedFor(query) == IF query.kind = "int" THEN query.n ELSE DEFAULT_LIMIT

\* C24: GET /api/username/recent?limit=N (N >= 1, or no limit and N = 10)
\* answers with the N most recently persisted CheckRecords, all of them if
\* fewer exist, the newest first, for every history, records that share a
\* checkedAt value included.
C24_RecentReturnsNewestFirst ==
  [][Len(hist') = Len(hist) + 1 =>
       LET e == hist'[Len(hist')]
       IN  (/\ e.route = "recent"
            /\ e.query.kind = "int" => e.query.n >= 1)
           => e.response.checks = NewestFirst(usernameChecks, AskedFor(e.query))]_vars

BatchResponse(q) == q.pc = "done" /\ q.response.status = 200

\* the names of a list, and the usernames the entries of a list are for
NamesIn(ls) == {ls[i] : i \in 1..Len(ls)}
UsernamesIn(es) == {es[i].username : i \in 1..Len(es)}

PassesSyntax(body) == body.wellTyped /\ SchemaAccepts(body.username)

\* C26: a single check whose username fails syntax validation is answered 400
\* without any call to the primary or fallback endpoint and without a
\* CheckRecord; a check that passed validation is answered 400 never, and
\* when it ends without its CheckRecord (the resolver call or the append to
\* the History Store threw) it is answered 500.
C26_InvalidIs400FailureIs500 ==
  \A r \in active :
    req[r].route = "check" =>
      /\ ~PassesSyntax(req[r].input) =>
           /\ req[r].pc = "done"
           /\ req[r].response.status = 400
           /\ req[r].callLog = << >>
           /\ usernameChecks = << >>
      /\ (PassesSyntax(req[r].input) /\ req[r].pc = "done") =>
           /\ req[r].response.status \in {200, 500}
           /\ req[r].response.status = 200 <=> Len(usernameChecks) = 1
           /\ req[r].callLog # << >>

\* the append of a validated single check has thrown, and the answer is 500
C26_Witness ==
  \E r \in active :
    /\ req[r].route = "check"
    /\ PassesSyntax(req[r].input)
    /\ req[r].pc = "done"
    /\ req[r].response = [status |-> 500, message |-> "store failure"]
    /\ usernameChecks = << >>

\* the lines a batch request was given: the array of the JSON body, or the
\* lines of the uploaded file
GivenLines(q) ==
  IF q.route = "file" THEN SplitLines(q.input.content, << >>)
                      ELSE q.input.usernames

Normalized(ls) == FilterNonEmpty(MapTrim(ls))

\* C27: on both entry paths, the JSON bulk-check route and the file route,
\* the orchestrator trims each line and drops the empty ones before
\* validation: summary.total counts the non-empty trimmed lines, and a
\* username surrounded by white space is validated in its trimmed form.
C27_InputNormalizedOnEveryPath ==
  \A r \in active :
    (req[r].route \in BulkRoutes /\ req[r].pc = "done"
       /\ req[r].response.status = 200) =>
      /\ req[r].response.summary.total = Len(Normalized(GivenLines(req[r])))
      /\ req[r].validatedUsernames = ValidatedOf(Normalized(GivenLines(req[r])))

\* a batch that was given to the orchestrator
InOrchestrator(q) ==
  /\ q.route \in BulkRoutes
  /\ q.pc # "idle"
  /\ q.pc = "done" => q.response.status = 200

Occurrences(ls, u) == Cardinality({k \in 1..Len(ls) : ls[k] = u})
EntriesFor(es, u) == {j \in 1..Len(es) : es[j].username = u}

\* C28: a username of a batch that violates any of the syntax rules gets
\* exactly one result entry per occurrence, with isAvailable = null and the
\* error "Invalid username format", and causes no call of the primary or
\* fallback endpoint and no CheckRecord.
C28_InvalidItemGetsOneEntryNoCall ==
  \A r \in active :
    InOrchestrator(req[r]) =>
      \A i \in 1..Len(req[r].usernames) :
        LET u == req[r].usernames[i] IN
        ~SchemaAccepts(u) =>
          /\ Cardinality(EntriesFor(req[r].results, u))
               = Occurrences(req[r].usernames, u)
          /\ \A j \in EntriesFor(req[r].results, u) :
               /\ req[r].results[j].isAvailable = JsNull
               /\ req[r].results[j].error = "Invalid username format"
          /\ \A j \in 1..Len(req[r].callLog) : req[r].callLog[j].username # u
          /\ \A k \in 1..Len(usernameChecks) : usernameChecks[k].username # u

\* an answered batch with a name that breaks one rule, next to a name that
\* was resolved and persisted
C28_Witness ==
  \E r \in active :
    /\ InOrchestrator(req[r]) /\ req[r].pc = "done"
    /\ \E i \in 1..Len(req[r].usernames) : req[r].usernames[i] = U_bad
    /\ HasDoubleUnderscore(U_bad) /\ ~StartsOrEndsWithUnderscore(U_bad)
    /\ Len(usernameChecks) >= 1
    /\ Len(req[r].callLog) >= 1

\* a result entry written by the catch block of the processing loop
IsLoopFailure(e) == e.isAvailable = JsNull /\ e.error # "Invalid username format"

\* C29 as stated: once the processing of a validated username has raised
\* inside the loop, the results hold an isAvailable = null entry with the
\* error message for that username and the History Store holds no
\* CheckRecord for that username.
C29_NoRecordForFailedUsername ==
  \A r \in active :
    InOrchestrator(req[r]) =>
      \A j \in 1..Len(req[r].results) :
        IsLoopFailure(req[r].results[j]) =>
          \A k \in 1..Len(usernameChecks) :
            usernameChecks[k].username # req[r].results[j].username

\* the loop body of a batch raises in this step: the append to the History
\* Store rejects, or the resolver call ends by throwing
LoopRaises(r) ==
  /\ req[r].route \in BulkRoutes
  /\ req'[r] # req[r]
  /\ \/ req[r].pc = "save" /\ usernameChecks' = usernameChecks
     \/ /\ req[r].pc \in {"primary_fetch", "primary_json", "fallback_fetch", "fallback_json"}
        /\ req'[r].raised /\ ~req[r].raised

\* C29, amended: when processing a validated username raises inside the
\* batch loop, the orchestrator appends exactly one entry with
\* isAvailable = null and the error message for that username, and that
\* iteration appends no CheckRecord: the History Store is left as it was
\* (it may hold a record of an earlier check of the same name).
C29_FailedIterationAppendsEntryOnly ==
  [][\A r \in active :
       /\ LoopRaises(r) =>
            /\ Len(req'[r].results) = Len(req[r].results) + 1
            /\ SubSeq(req'[r].results, 1, Len(req[r].results)) = req[r].results
            /\ LET e == req'[r].results[Len(req'[r].results)] IN
                 /\ e.username = req[r].username
                 /\ IsLoopFailure(e)
                 /\ e.timestamp = now
            /\ req'[r].processed = req[r].processed + 1
            /\ usernameChecks' = usernameChecks
            /\ currentCheckId' = currentCheckId
       /\ (/\ req[r].route \in BulkRoutes
           /\ Len(req'[r].results) = Len(req[r].results) + 1
           /\ IsLoopFailure(req'[r].results[Len(req'[r].results)]))
            => usernameChecks' = usernameChecks]_vars

\* a file lists a name twice: the first check was persisted, the append for
\* the second was rejected
C29_Witness ==
  \E r \in active :
    /\ InOrchestrator(req[r])
    /\ Len(req[r].results) = 2
    /\ req[r].results[1].isAvailable # JsNull
    /\ IsLoopFailure(req[r].results[2])
    /\ req[r].results[2].error = "store failure"
    /\ Len(usernameChecks) = 1
    /\ usernameChecks[1].username = req[r].results[1].username
    /\ req[r].results[2].username = req[r].results[1].username

EntriesWith(es, v) == {i \in 1..Len(es) : es[i].isAvailable = v}

\* C30: in every bulk response summary.available is the number of result
\* entries with isAvailable = true and summary.taken the number with
\* isAvailable = false; with the entries whose isAvailable is null they
\* account for every result, and available + taken never exceeds
\* summary.processed.
C30_SummaryCountsMatchResults ==
  \A r \in active :
    (req[r].route \in BulkRoutes /\ BatchResponse(req[r])) =>
      LET res == req[r].response.results
          sum == req[r].response.summary
      IN  /\ sum.available = Cardinality(EntriesWith(res, JsBool(TRUE)))
          /\ sum.taken = Cardinality(EntriesWith(res, JsBool(FALSE)))
          /\ sum.available + sum.taken + Cardinality(EntriesWith(res, JsNull))
               = Len(res)
          /\ sum.available + sum.taken <= sum.processed

\* a batch answered with an available, a taken and a failed entry
C30_Witness ==
  \E r \in active :
    /\ req[r].route \in BulkRoutes /\ BatchResponse(req[r])
    /\ req[r].response.summary.available = 1
    /\ req[r].response.summary.taken = 1
    /\ Cardinality(EntriesWith(req[r].response.results, JsNull)) = 1
    /\ Len(req[r].response.results) = 3

\* the step serves DELETE /api/username/recent
IsClearStep ==
  /\ Len(hist') = Len(hist) + 1
  /\ hist'[Len(hist')].route = "clear"

\* C31: a CheckRecord is never mutated after creation and is removed only
\* by the clear operation: every other step (an append, a recent or stats
\* query, any step of a check route, the clock) leaves every persisted record
\* in the store with its id, username, isAvailable and checkedAt as they
\* were.
C31_RecordsImmutableUntilClear ==
  [][IF IsClearStep
       THEN usernameChecks' = << >>
       ELSE /\ Len(usernameChecks') >= Len(usernameChecks)
            /\ \A i \in 1..Len(usernameChecks) :
                 /\ usernameChecks'[i].id = usernameChecks[i].id
                 /\ usernameChecks'[i].username = usernameChecks[i].username
                 /\ usernameChecks'[i].isAvailable = usernameChecks[i].isAvailable
                 /\ usernameChecks'[i].checkedAt = usernameChecks[i].checkedAt]_vars

\* earlier records, one more appended for the same name, and the recent and
\* stats routes served since: all of them are in the store
C31_Witness ==
  /\ Len(usernameChecks) = MaxHistory + 1
  /\ \A i \in 1..Len(usernameChecks) :
       usernameChecks[i].id = i /\ usernameChecks[i].username = U_abc
  /\ \E i, j \in 1..Len(hist) :
       /\ hist[i].route = "recent" /\ hist[i].nextId = MaxHistory + 2
       /\ hist[j].route = "stats" /\ hist[j].nextId = MaxHistory + 2

RecordsWith(b) == {i \in 1..Len(usernameChecks) : usernameChecks[i].isAvailable = b}

\* C32: GET /api/username/stats aggregates over all persisted CheckRecords:
\* whenever it is served, totalChecks is the number of records in the
\* History Store, availableCount the number with isAvailable = true and
\* takenCount the number with isAvailable = false, so that totalChecks =
\* availableCount + takenCount; avgResponseTime is always the same constant.
C32_StatsAggregateAllRecords ==
  [][(Len(hist') = Len(hist) + 1 /\ hist'[Len(hist')].route = "stats") =>
       LET stats == hist'[Len(hist')].response.stats IN
       /\ hist'[Len(hist')].response.status = 200
       /\ stats.totalChecks = Len(usernameChecks)
       /\ stats.availableCount = Cardinality(RecordsWith(TRUE))
       /\ stats.takenCount = Cardinality(RecordsWith(FALSE))
       /\ stats.totalChecks = stats.availableCount + stats.takenCount
       /\ stats.avgResponseTime = "0.8"
       /\ usernameChecks' = usernameChecks]_vars

\* the stats route was served over a store holding available and taken
\* records, after a check was appended
C32_Witness ==
  /\ Len(hist) >= 1
  /\ hist[Len(hist)].route = "stats"
  /\ hist[Len(hist)].nextId = MaxHistory + 2
  /\ hist[Len(hist)].response.stats.totalChecks = MaxHistory + 1
  /\ hist[Len(hist)].response.stats.takenCount >= 1
  /\ hist[Len(hist)].response.stats.availableCount >= 1

\* a resolver call of the request is under way
Resolving(r) ==
  req[r].pc \in {"primary_fetch", "primary_json", "fallback_fetch", "fallback_json"}

\* C33: every resolve call eventually returns a verdict even if an external
\* endpoint never finishes answering (an attempt that has not completed
\* within 10 seconds is aborted), hence every admitted batch eventually
\* responds.
C33_EveryResolveReturns ==
  \A r \in Reqs :
    /\ Resolving(r) ~> ~Resolving(r)
    /\ (req[r].pc # "idle") ~> (req[r].pc = "done")

\* while a fetch is pending the abort timer bounds the wait
PendingFetchIsBounded ==
  \A r \in Reqs :
    (req[r].pc \in {"primary_fetch", "fallback_fetch"})
      ~> (req[r].pc \notin {"primary_fetch", "fallback_fetch"})

BooleanEntries(es) == {j \in 1..Len(es) : es[j].isAvailable \in {JsBool(TRUE), JsBool(FALSE)}}

\* the record the store holds for a result entry
RecordOf(e) ==
  {i \in 1..Len(usernameChecks) :
     /\ usernameChecks[i].username = e.username
     /\ JsBool(usernameChecks[i].isAvailable) = e.isAvailable
     /\ usernameChecks[i].checkedAt = e.timestamp}

\* C34: bulk requests that are under way together and interleave at their
\* suspension points do not interfere: the results and summary of each are
\* made of its own input and its own resolver calls, each request works
\* through its own usernames in their order, one call at a time, and the
\* History Store holds exactly one record per resolved username of each
\* request.
C34_ConcurrentBatchesDoNotInterfere ==
  /\ \A r \in active :
       InOrchestrator(req[r]) =>
         LET q == req[r]
             errs == Len(q.validationErrors)
         IN  /\ q.usernames = q.input.usernames
             /\ q.validatedUsernames = ValidatedOf(q.input.usernames)
             /\ Len(q.results) <= Len(q.input.usernames)
             /\ \A k \in 1..errs :
                  q.results[k].username = q.validationErrors[k].username
             /\ \A k \in 1..(Len(q.results) - errs) :
                  q.results[errs + k].username = q.validatedUsernames[k]
             /\ Len(q.callLog) \in {Len(q.results) - errs, Len(q.results) - errs + 1}
             /\ \A k \in 1..Len(q.callLog) :
                  q.callLog[k].username = q.validatedUsernames[k]
             /\ \A j \in BooleanEntries(q.results) : RecordOf(q.results[j]) # {}
             /\ q.pc = "done" =>
                  /\ q.response.results = q.results
                  /\ Len(q.results) = Len(q.input.usernames)
                  /\ q.response.summary.total = Len(q.input.usernames)
                  /\ q.response.summary.processed = Len(ValidatedOf(q.input.usernames))
                  /\ q.response.summary.available + q.response.summary.taken
                       = Cardinality(BooleanEntries(q.results))
  /\ \A i \in 1..Len(usernameChecks) : usernameChecks[i].id = i
  /\ Len(usernameChecks)
       = Cardinality({<< r, j >> \in Reqs \X (1..MaxBatch) :
                        /\ InOrchestrator(req[r])
                        /\ j \in BooleanEntries(req[r].results)})

\* two batches were answered after their appends alternated in the store
C34_Witness ==
  /\ \A r \in Reqs : InOrchestrator(req[r]) /\ req[r].pc = "done"
  /\ req["r1"].input.usernames = << U_abc, U_abc >>
  /\ req["r2"].input.usernames = << U_bad, U_good >>
  /\ Len(usernameChecks) = 3
  /\ usernameChecks[1].username = U_abc
  /\ usernameChecks[2].username = U_good
  /\ usernameChecks[3].username = U_abc

\* the step is a call of checkRateLimit that returns false
RejectingCall ==
  /\ rl'.calls = rl.calls + 1
  /\ rl'.last.kind = "call"
  /\ ~rl'.last.allowed

\* C35: a call of checkRateLimit that returns false leaves the rate-limit
\* store as it was: the count and the resetTime of the client are not
\* modified, so a rejected request neither extends the window nor delays
\* its reset.
C35_RejectedCallLeavesStoreUnchanged ==
  [][RejectingCall =>
       /\ rateLimitStore' = rateLimitStore
       /\ rl'.last.ip \in DOMAIN rateLimitStore
       /\ rateLimitStore'[rl'.last.ip].count = RATE_LIMIT_MAX
       /\ rateLimitStore'[rl'.last.ip].resetTime
            = rateLimitStore[rl'.last.ip].resetTime]_vars

\* a client was rejected twice in its window, which still ends when it did
C35_Witness ==
  \E k \in RLKeys :
    /\ rl.last.kind = "call" /\ rl.last.ip = k /\ ~rl.last.allowed
    /\ Len(rl.results[k]) = RATE_LIMIT_MAX + 2
    /\ ~rl.results[k][RATE_LIMIT_MAX + 1]
    /\ rateLimitStore[k].count = RATE_LIMIT_MAX
    /\ rateLimitStore[k].resetTime = rl.admittedAt[k][1] + RATE_LIMIT_WINDOW
    /\ now > rl.admittedAt[k][1]

\* C36: rate-limit windows are isolated per client key: a call
\* checkRateLimit(A) never changes the window of another key B (nor creates
\* or removes it), and it does not change what the next call of B is
\* answered, so a client that exhausts its quota never causes the rejection
\* of another client's request.
C36_WindowsIsolatedPerKey ==
  [][(rl'.calls = rl.calls + 1 /\ rl'.last.kind = "call") =>
       \A b \in RLKeys \ {rl'.last.ip} :
         /\ b \in DOMAIN rateLimitStore' <=> b \in DOMAIN rateLimitStore
         /\ b \in DOMAIN rateLimitStore => rateLimitStore'[b] = rateLimitStore[b]
         /\ rl'.results[b] = rl.results[b]
         /\ checkRateLimit(rateLimitStore', b, now)
              = checkRateLimit(rateLimitStore, b, now)]_vars

\* one client has used up its window and was rejected; the other client's
\* first request, made after that, is admitted
C36_Witness ==
  /\ "ip1" \in DOMAIN rateLimitStore
  /\ rateLimitStore["ip1"].count = RATE_LIMIT_MAX
  /\ Len(rl.results["ip1"]) = RATE_LIMIT_MAX + 1
  /\ ~rl.results["ip1"][RATE_LIMIT_MAX + 1]
  /\ rl.last.kind = "call" /\ rl.last.ip = "ip2" /\ rl.last.allowed
  /\ rl.results["ip2"] = << TRUE >>
  /\ rateLimitStore["ip2"].count = 1

\* the window the request found was open and used up
FoundUsedUp(q) ==
  q.seen.present /\ q.seen.at <= q.seen.resetTime /\ q.seen.count >= RATE_LIMIT_MAX

\* the request asks for the check of a valid username
AsksValid(q) ==
  \/ q.route = "check" /\ PassesSyntax(q.input)
  \/ q.route = "bulk" /\ BulkSchemaAccepts(q.input)
  \/ q.route = "file" /\ q.input.present /\ Len(ParseFile(q.input.content)) > 0

\* C37: on every check route the rate-limit check precedes input
\* validation: a request answered 400 (invalid username, malformed bulk
\* payload, missing or empty file) has consumed one unit of the client's
\* window, and once the window is used up the next request of the client,
\* valid or not, is answered 429.
C37_RejectedRequestsConsumeQuota ==
  \A r \in active :
    req[r].route # "none" =>
      /\ FoundUsedUp(req[r]) => IsRateLimited(req[r])
      /\ (req[r].pc = "done" /\ req[r].response.status = 400) =>
           /\ ~AsksValid(req[r])
           /\ req[r].ip \in DOMAIN rateLimitStore
           /\ rateLimitStore[req[r].ip].count =
                (IF req[r].seen.present /\ req[r].seen.at <= req[r].seen.resetTime
                   THEN req[r].seen.count + 1 ELSE 1)

\* ten requests of the client were answered 400 (none reached the store),
\* and its next request, a valid one, is answered 429
C37_Witness ==
  \E r \in active :
    /\ AsksValid(req[r])
    /\ IsRateLimited(req[r])
    /\ req[r].seen.count = RATE_LIMIT_MAX
    /\ usernameChecks = << >>
    /\ currentCheckId = 1

\* the fallback endpoint answered 2xx with a JSON object that has no data
\* field, or null for it
FallbackWithoutData(q) ==
  /\ Returned(q)
  /\ q.res.ffetch.kind = "response"
  /\ q.res.ffetch.status >= 200 /\ q.res.ffetch.status <= 299
  /\ q.res.fbody.kind = "body"
  /\ q.res.fbody.data.type = "object"
  /\ q.res.fbody.data.data \in {JsUndefined, JsNull}

\* C38: a 2xx fallback response whose JSON body has no data field, or a
\* null data field, is classified as available (isAvailable = true, status
\* available, no message), exactly like an empty data array.
C38_MissingDataMeansAvailable ==
  \A r \in active :
    FallbackWithoutData(req[r]) =>
      req[r].res.result.verdict =
        [isAvailable |-> TRUE, status |-> "available", message |-> JsUndefined]

\* the primary answered 500 and the fallback body is {"data": null}
C38_Witness ==
  \E r \in active :
    /\ FallbackWithoutData(req[r])
    /\ req[r].res.pfetch.kind = "response" /\ req[r].res.pfetch.status = 500
    /\ req[r].res.fbody.data.data = JsNull
    /\ req[r].res.result.verdict.isAvailable

\* C39: every verdict the resolver returns is consistent: isAvailable is
\* true exactly when status is available, and status is one of available,
\* taken, censored, too_short, too_long, invalid_characters, unknown, error.
C39_VerdictIsConsistent ==
  \A r \in active :
    Returned(req[r]) =>
      /\ req[r].res.result.verdict.isAvailable \in BOOLEAN
      /\ req[r].res.result.verdict.status \in VerdictStatuses
      /\ req[r].res.result.verdict.isAvailable
           <=> (req[r].res.result.verdict.status = "available")

\* the primary endpoint answered code 2 and the verdict is censored, not
\* available
C39_Witness ==
  \E r \in active :
    /\ Returned(req[r])
    /\ req[r].res.pbody.kind = "body"
    /\ req[r].res.pbody.data.type = "object"
    /\ IsNum(req[r].res.pbody.data.code, 2)
    /\ req[r].res.result.verdict.status = "censored"
    /\ ~req[r].res.result.verdict.isAvailable

\* C40: the client's validateRobloxUsername and the server's
\* usernameValidationSchema agree on every string: one reports a username
\* valid exactly when the other accepts it, so a username accepted in the
\* browser is never rejected with 400 for its format, and vice versa.
C40_ClientAndServerValidatorsAgree ==
  (Answered(val.schema) /\ Answered(val.client)) =>
    /\ val.schema = val.client
    /\ (val.client = "accept") <=> validateRobloxUsername(val.raw).isValid
    /\ (val.schema = "accept") <=> SchemaAccepts(val.raw)

\* both validators have answered for 19 letters followed by a line feed,
\* which the . of the client's lookahead patterns does not match, and both
\* reject it
C40_Witness ==
  /\ val.raw = Rep("a", MAX_LEN - 1) \o << "\n" >>
  /\ val.schema = "reject"
  /\ val.client = "reject"

====
